---- MODULE Spec2Model ----
(***************************************************************************)
(* The caching and invalidation layer of the feedback-documents backend:   *)
(* CacheService (backend/app/cache_service.py) over a Redis store, and the *)
(* request handlers of backend/app/main.py that read through it and        *)
(* invalidate it after mutations of the Cosmos document store.             *)
(*                                                                         *)
(* Strings are sequences of one-character strings, so that key building,   *)
(* lower-casing and Redis' glob matching are computed character by         *)
(* character.                                                              *)
(***************************************************************************)
EXTENDS Integers, Sequences, FiniteSets, TLC

(***************************************************************************)
(* Characters and strings                                                  *)
(***************************************************************************)

\* The characters in code-point order (the part of ASCII the keys use).
Alphabet ==
    << "*", "-",
       "0", "1", "2", "3", "4", "5", "6", "7", "8", "9",
       ":", "=", "?",
       "A", "B", "C", "D", "E", "F", "G", "H", "I", "J", "K", "L", "M",
       "N", "O", "P", "Q", "R", "S", "T", "U", "V", "W", "X", "Y", "Z",
       "_",
       "a", "b", "c", "d", "e", "f", "g", "h", "i", "j", "k", "l", "m",
       "n", "o", "p", "q", "r", "s", "t", "u", "v", "w", "x", "y", "z" >>

CodePoints ==
    [ch \in {Alphabet[i] : i \in 1..Len(Alphabet)} |->
        CHOOSE i \in 1..Len(Alphabet) : Alphabet[i] = ch]

CharCode(ch) == CodePoints[ch]

IsUpper(ch) == CharCode(ch) >= CharCode("A") /\ CharCode(ch) <= CharCode("Z")

\* str.lower() on one character.
LowerChar(ch) ==
    IF IsUpper(ch)
    THEN Alphabet[CharCode(ch) - CharCode("A") + CharCode("a")]
    ELSE ch

\* str.lower()
Lower(s) == [i \in 1..Len(s) |-> LowerChar(s[i])]

\* Python's < on strings: lexicographic by code point.
RECURSIVE StrLess(_, _)
StrLess(a, b) ==
    IF b = <<>> THEN FALSE
    ELSE IF a = <<>> THEN TRUE
    ELSE IF Head(a) = Head(b) THEN StrLess(Tail(a), Tail(b))
    ELSE CharCode(Head(a)) < CharCode(Head(b))

Digit(d) == Alphabet[CharCode("0") + d]

\* f"{n}" of a non-negative int: its decimal digits.
RECURSIVE IntStr(_)
IntStr(n) == IF n < 10 THEN <<Digit(n)>> ELSE IntStr(n \div 10) \o <<Digit(n % 10)>>

\* sep.join(parts)
RECURSIVE Join(_, _)
Join(sep, parts) ==
    IF parts = <<>> THEN <<>>
    ELSE IF Len(parts) = 1 THEN parts[1]
    ELSE parts[1] \o sep \o Join(sep, Tail(parts))

\* String literals of the source.
S_feedback_docs == <<"f","e","e","d","b","a","c","k","_","d","o","c","s">>
S_page == <<"p","a","g","e">>
S_all == <<"a","l","l">>
S_search == <<"s","e","a","r","c","h">>
S_limit == <<"l","i","m","i","t">>
S_query == <<"q","u","e","r","y">>
S_field == <<"f","i","e","l","d">>
S_UserPrompt == <<"U","s","e","r","P","r","o","m","p","t">>
S_Query == <<"Q","u","e","r","y">>
S_mlb == <<"m","l","b">>
S_mlb_unofficial == <<"m","l","b","-","u","n","o","f","f","i","c","i","a","l">>
S_nba_official == <<"n","b","a","-","o","f","f","i","c","i","a","l">>
S_nba_unofficial == <<"n","b","a","-","u","n","o","f","f","i","c","i","a","l">>

(***************************************************************************)
(* Key builder                                                             *)
(***************************************************************************)

\* sorted(kwargs.items()): kwargs is a set of <<name, value>> pairs with
\* distinct names; the result lists them by ascending name.
RECURSIVE SortedItems(_)
SortedItems(kwargs) ==
    IF kwargs = {} THEN <<>>
    ELSE LET first == CHOOSE kv \in kwargs :
                          \A other \in kwargs \ {kv} : StrLess(kv[1], other[1])
         IN  <<first>> \o SortedItems(kwargs \ {first})

\* CacheService._get_key: feedback_docs:<container>:<key_type>[:k=v:...]
GetKey(key_type, container, kwargs) ==
    LET base_key == S_feedback_docs \o <<":">> \o container \o <<":">> \o key_type
        items == SortedItems(kwargs)
        params == Join(<<":">>, [i \in 1..Len(items) |->
                                     items[i][1] \o <<"=">> \o items[i][2]])
    IN  IF kwargs # {} THEN base_key \o <<":">> \o params ELSE base_key

\* _get_key called with keyword arguments in some order: kwargs is the sequence
\* of <<name, value>> pairs as supplied, kwargs.items() the pairs.
Items(kwargs) == {kwargs[i] : i \in 1..Len(kwargs)}

\* Faulty variant of _get_key: the parameters are joined in the order supplied.
_get_key_unsorted(key_type, container, kwargs) ==
    LET base_key == S_feedback_docs \o <<":">> \o container \o <<":">> \o key_type
        params == Join(<<":">>, [i \in 1..Len(kwargs) |->
                                     kwargs[i][1] \o <<"=">> \o kwargs[i][2]])
    IN  IF kwargs # <<>> THEN base_key \o <<":">> \o params ELSE base_key

_get_key(key_type, container, kwargs) == GetKey(key_type, container, Items(kwargs))

PageKey(container, page, limit) ==
    GetKey(S_page, container, {<<S_page, IntStr(page)>>, <<S_limit, IntStr(limit)>>})

AllKey(container) == GetKey(S_all, container, {})

\* Faulty variant of SearchKey: the field is left out of the key.
SearchKey_without_field(container, query, field) ==
    GetKey(S_search, container, {<<S_query, Lower(query)>>})

SearchKey(container, query, field) ==
    GetKey(S_search, container, {<<S_query, Lower(query)>>, <<S_field, field>>})

(***************************************************************************)
(* The Redis store                                                         *)
(***************************************************************************)

\* KEYS pattern matching (glob): "*" matches any run of characters, "?" any
\* one character, every other character itself.
\* The matching goes by runs: "*" tries every suffix of s, and a run of other
\* characters is compared with the start of s position by position.
LiteralRun(pattern) ==
    LET stars == {i \in 1..Len(pattern) : pattern[i] = "*"}
    IN  IF stars = {} THEN Len(pattern)
        ELSE (CHOOSE i \in stars : \A j \in stars : i <= j) - 1

RECURSIVE GlobMatch(_, _)
GlobMatch(pattern, s) ==
    IF pattern = <<>> THEN s = <<>>
    ELSE IF Head(pattern) = "*"
         THEN \E k \in 0..Len(s) :
                  GlobMatch(Tail(pattern), SubSeq(s, k + 1, Len(s)))
    ELSE LET n == LiteralRun(pattern)
         IN  /\ Len(s) >= n
             /\ \A i \in 1..n : pattern[i] = "?" \/ pattern[i] = s[i]
             /\ GlobMatch(SubSeq(pattern, n + 1, Len(pattern)),
                          SubSeq(s, n + 1, Len(s)))

\* A cached value is a list of documents; a document is written here by its
\* id, a string.  json.dumps gives the text, one token per bracket, comma and
\* document: "[]" for the empty list, never the empty text.
Dumps(data) ==
    IF Len(data) = 0 THEN << <<"[">>, <<"]">> >>
    ELSE [i \in 1..(2 * Len(data) + 1) |->
             IF i = 1 THEN <<"[">>
             ELSE IF i = 2 * Len(data) + 1 THEN <<"]">>
             ELSE IF i % 2 = 0 THEN data[i \div 2]
             ELSE <<",">>]

\* json.loads of such a text.
Loads(text) == [i \in 1..((Len(text) - 1) \div 2) |-> text[2 * i]]

\* Optional values: None, or a one-element tuple holding the value.
None == <<>>
Some(v) == <<v>>

\* An entry of the store: the text, the expiry it was set with and the time
\* since it was set.  Redis drops an entry once its age reaches its ttl.
Entry(val, ttl) == [val |-> val, ttl |-> ttl, age |-> 0]

\* redis_client.get(key): the text, or None.
RedisGet(st, key) == IF key \in DOMAIN st THEN Some(st[key].val) ELSE None

\* redis_client.setex(key, ttl, val)
RedisSetex(st, key, ttl, val) ==
    [k \in DOMAIN st \cup {key} |-> IF k = key THEN Entry(val, ttl) ELSE st[k]]

\* redis_client.keys(pattern)
RedisKeys(st, pattern) == {k \in DOMAIN st : GlobMatch(pattern, k)}

\* redis_client.delete(*keys)
RedisDelete(st, keys) == [k \in DOMAIN st \ keys |-> st[k]]

\* The store after d seconds: every entry is older, the expired ones are gone.
Expire(st, d) ==
    LET live == {k \in DOMAIN st : st[k].age + d < st[k].ttl}
    IN  [k \in live |-> [st[k] EXCEPT !.age = @ + d]]

(***************************************************************************)
(* CacheService                                                            *)
(***************************************************************************)

\* Cache TTL settings (in seconds)
PAGE_CACHE_TTL == 300
ALL_CACHE_TTL == 600
SEARCH_CACHE_TTL == 180
STATS_CACHE_TTL == 900

\* The default of the limit parameter of get_page_cache and set_page_cache.
DEFAULT_LIMIT == 20

\* CacheService.__init__: cache_enabled = redis_client is not None, and
\* redis.from_url gives a client whenever REDIS_URL is set (it does not connect).
InitEnabled(url) == url # "unset"

\* What a method call leaves behind: the store, the returned value, whether
\* an exception left the method, and whether it called the store at all.
Outcome(st, r, exc) == [store |-> st, ret |-> r, raised |-> exc, called |-> FALSE]

\* The method got as far as calling self.redis_client.
Called(out) == [out EXCEPT !.called = TRUE]

\* if cached_data: a text was found and it is not empty.
Truthy(cached) == cached # None /\ Len(cached[1]) > 0

\* Faulty variant of Except: the handler re-raises.
Except_reraise(st, r) == Outcome(st, None, TRUE)

\* except Exception as e: logger.error(...) -- the error is logged, and the
\* method goes on to the statement after the try (its return of r).
Except(st, r) == Outcome(st, r, FALSE)

\* In the methods below f is the store call that fails: 0 for none, 1 for the
\* first call the method makes, 2 for the second.

\* Faulty variant of get_page_cache: the key is built with the default limit.
get_page_cache_default_limit(enabled, st, container, page, limit, f) ==
    IF ~enabled THEN Outcome(st, None, FALSE)
    ELSE Called(LET key == PageKey(container, page, DEFAULT_LIMIT)
             cached_data == RedisGet(st, key)
         IN  IF f = 1 THEN Except(st, None)
             ELSE IF Truthy(cached_data)
                  THEN Outcome(st, Some(Loads(cached_data[1])), FALSE)
                  ELSE Outcome(st, None, FALSE))

get_page_cache(enabled, st, container, page, limit, f) ==
    IF ~enabled THEN Outcome(st, None, FALSE)
    ELSE Called(LET key == PageKey(container, page, limit)
             cached_data == RedisGet(st, key)
         IN  IF f = 1 THEN Except(st, None)
             ELSE IF Truthy(cached_data)
                  THEN Outcome(st, Some(Loads(cached_data[1])), FALSE)
                  ELSE Outcome(st, None, FALSE))

\* Faulty variant of set_page_cache: the entry is set with the ttl of the "all" slot.
set_page_cache_all_ttl(enabled, st, container, page, data, limit, f) ==
    IF ~enabled \/ data = <<>> THEN Outcome(st, None, FALSE)
    ELSE Called(IF f = 1 THEN Except(st, None)
    ELSE Outcome(RedisSetex(st, PageKey(container, page, limit), ALL_CACHE_TTL,
                            Dumps(data)), None, FALSE))

\* Faulty variant of set_page_cache: a setex that fails has left the first
\* token of the text under the key.
set_page_cache_torn(enabled, st, container, page, data, limit, f) ==
    IF ~enabled \/ data = <<>> THEN Outcome(st, None, FALSE)
    ELSE Called(LET key == PageKey(container, page, limit)
         IN  IF f = 1
             THEN Except(RedisSetex(st, key, PAGE_CACHE_TTL,
                                    SubSeq(Dumps(data), 1, 1)), None)
             ELSE Outcome(RedisSetex(st, key, PAGE_CACHE_TTL, Dumps(data)), None, FALSE))

set_page_cache(enabled, st, container, page, data, limit, f) ==
    IF ~enabled \/ data = <<>> THEN Outcome(st, None, FALSE)
    ELSE Called(LET key == PageKey(container, page, limit)
         IN  IF f = 1 THEN Except(st, None)
             ELSE Outcome(RedisSetex(st, key, PAGE_CACHE_TTL, Dumps(data)), None, FALSE))

get_all_cache(enabled, st, container, f) ==
    IF ~enabled THEN Outcome(st, None, FALSE)
    ELSE Called(LET key == AllKey(container)
             cached_data == RedisGet(st, key)
         IN  IF f = 1 THEN Except(st, None)
             ELSE IF Truthy(cached_data)
                  THEN Outcome(st, Some(Loads(cached_data[1])), FALSE)
                  ELSE Outcome(st, None, FALSE))

\* Faulty variant of set_all_cache: the "or not data" guard is missing.
set_all_cache_unguarded(enabled, st, container, data, f) ==
    IF ~enabled THEN Outcome(st, None, FALSE)
    ELSE Called(IF f = 1 THEN Except(st, None)
    ELSE Outcome(RedisSetex(st, AllKey(container), ALL_CACHE_TTL, Dumps(data)),
                 None, FALSE))

set_all_cache(enabled, st, container, data, f) ==
    IF ~enabled \/ data = <<>> THEN Outcome(st, None, FALSE)
    ELSE Called(LET key == AllKey(container)
         IN  IF f = 1 THEN Except(st, None)
             ELSE Outcome(RedisSetex(st, key, ALL_CACHE_TTL, Dumps(data)), None, FALSE))

\* Faulty variant of get_search_cache: the query goes into the key as given.
get_search_cache_exact_case(enabled, st, container, query, field, f) ==
    IF ~enabled THEN Outcome(st, None, FALSE)
    ELSE Called(LET key == GetKey(S_search, container,
                           {<<S_query, query>>, <<S_field, field>>})
             cached_data == RedisGet(st, key)
         IN  IF f = 1 THEN Except(st, None)
             ELSE IF Truthy(cached_data)
                  THEN Outcome(st, Some(Loads(cached_data[1])), FALSE)
                  ELSE Outcome(st, None, FALSE))

get_search_cache(enabled, st, container, query, field, f) ==
    IF ~enabled THEN Outcome(st, None, FALSE)
    ELSE Called(LET key == SearchKey(container, query, field)
             cached_data == RedisGet(st, key)
         IN  IF f = 1 THEN Except(st, None)
             ELSE IF Truthy(cached_data)
                  THEN Outcome(st, Some(Loads(cached_data[1])), FALSE)
                  ELSE Outcome(st, None, FALSE))

set_search_cache(enabled, st, container, query, field, data, f) ==
    IF ~enabled THEN Outcome(st, None, FALSE)
    ELSE Called(LET key == SearchKey(container, query, field)
         IN  IF f = 1 THEN Except(st, None)
             ELSE Outcome(RedisSetex(st, key, SEARCH_CACHE_TTL, Dumps(data)), None, FALSE))

\* Faulty variant of ContainerPattern: only the page keys, feedback_docs:<container>:page*
ContainerPattern_pages_only(container) ==
    S_feedback_docs \o <<":">> \o container \o <<":">> \o S_page \o <<"*">>

\* Faulty variant of ContainerPattern: no separator, feedback_docs:<container>*
ContainerPattern_no_separator(container) ==
    S_feedback_docs \o <<":">> \o container \o <<"*">>

\* pattern = f"feedback_docs:{container}:*"
ContainerPattern(container) ==
    S_feedback_docs \o <<":">> \o container \o <<":", "*">>

\* Faulty variant of invalidate_container_cache: one call deletes one of the
\* keys found.
invalidate_container_cache_one_key(enabled, st, container, f) ==
    IF ~enabled THEN Outcome(st, None, FALSE)
    ELSE Called(LET keys == RedisKeys(st, ContainerPattern(container))
         IN  IF f = 1 THEN Except(st, None)
             ELSE IF keys # {}
                  THEN IF f = 2 THEN Except(st, None)
                       ELSE Outcome(RedisDelete(st, {CHOOSE k \in keys : TRUE}),
                                    None, FALSE)
                  ELSE Outcome(st, None, FALSE))

\* f = 1: keys() fails; f = 2: delete() fails (it is called only for some keys).
invalidate_container_cache(enabled, st, container, f) ==
    IF ~enabled THEN Outcome(st, None, FALSE)
    ELSE Called(LET keys == RedisKeys(st, ContainerPattern(container))
         IN  IF f = 1 THEN Except(st, None)
             ELSE IF keys # {}
                  THEN IF f = 2 THEN Except(st, None)
                       ELSE Outcome(RedisDelete(st, keys), None, FALSE)
                  ELSE Outcome(st, None, FALSE))

\* pattern = "feedback_docs:*"
AllPattern == S_feedback_docs \o <<":", "*">>

invalidate_all_cache(enabled, st, f) ==
    IF ~enabled THEN Outcome(st, None, FALSE)
    ELSE Called(LET keys == RedisKeys(st, AllPattern)
         IN  IF f = 1 THEN Except(st, None)
             ELSE IF keys # {}
                  THEN IF f = 2 THEN Except(st, None)
                       ELSE Outcome(RedisDelete(st, keys), None, FALSE)
                  ELSE Outcome(st, None, FALSE))

Min(a, b) == IF a < b THEN a ELSE b

\* The limits of warm_cache_for_container.
max_cache_size == 1000
page_size == 20
WARM_PAGES == 3

\* documents[start_idx:end_idx] (0-based, end exclusive, cut at the end).
Slice(documents, start_idx, end_idx) ==
    SubSeq(documents, start_idx + 1, Min(end_idx, Len(documents)))

\* The loop of warm_cache_for_container from page on.  fails holds the calls
\* whose setex fails: 0 for the "all" slot, p for page p.
RECURSIVE WarmPages(_, _, _, _, _, _, _)
WarmPages(enabled, st, container, documents_to_cache, page, total_pages, fails) ==
    IF page > total_pages THEN Outcome(st, None, FALSE)
    ELSE LET start_idx == (page - 1) * page_size
             end_idx == start_idx + page_size
             page_data == Slice(documents_to_cache, start_idx, end_idx)
             set == IF page_data # <<>>
                    THEN set_page_cache(enabled, st, container, page, page_data,
                                        page_size, IF page \in fails THEN 1 ELSE 0)
                    ELSE Outcome(st, None, FALSE)
         IN  IF set.raised THEN Except(set.store, None)
             ELSE WarmPages(enabled, set.store, container, documents_to_cache,
                            page + 1, total_pages, fails)

\* Faulty variant of warm_cache_for_container: every page is written, not the first
\* three only.
warm_cache_for_container_all_pages(enabled, st, container, documents, fails) ==
    IF ~enabled \/ documents = <<>> THEN Outcome(st, None, FALSE)
    ELSE Called(LET documents_to_cache ==
                 IF Len(documents) > max_cache_size
                 THEN Slice(documents, 0, max_cache_size)
                 ELSE documents
             all == set_all_cache(enabled, st, container, documents_to_cache,
                                  IF 0 \in fails THEN 1 ELSE 0)
             total_pages == (Len(documents_to_cache) + page_size - 1) \div page_size
         IN  WarmPages(enabled, all.store, container, documents_to_cache,
                       1, total_pages, fails))

\* Faulty variant of warm_cache_for_container: the container's entries are
\* cleared before the warm-up.
warm_cache_for_container_clear_first(enabled, st, container, documents, fails) ==
    IF ~enabled THEN Outcome(st, None, FALSE)
    ELSE Called(LET cleared == invalidate_container_cache(enabled, st, container, 0).store
             documents_to_cache ==
                 IF Len(documents) > max_cache_size
                 THEN Slice(documents, 0, max_cache_size)
                 ELSE documents
             all == set_all_cache(enabled, cleared, container, documents_to_cache,
                                  IF 0 \in fails THEN 1 ELSE 0)
             total_pages ==
                 Min(WARM_PAGES, (Len(documents_to_cache) + page_size - 1) \div page_size)
         IN  IF all.raised THEN Except(all.store, None)
             ELSE WarmPages(enabled, all.store, container, documents_to_cache,
                            1, total_pages, fails))

warm_cache_for_container(enabled, st, container, documents, fails) ==
    IF ~enabled \/ documents = <<>> THEN Outcome(st, None, FALSE)
    ELSE Called(LET documents_to_cache ==
                 IF Len(documents) > max_cache_size
                 THEN Slice(documents, 0, max_cache_size)
                 ELSE documents
             all == IF Len(documents_to_cache) <= max_cache_size
                    THEN set_all_cache(enabled, st, container, documents_to_cache,
                                       IF 0 \in fails THEN 1 ELSE 0)
                    ELSE Outcome(st, None, FALSE)
             total_pages ==
                 Min(WARM_PAGES, (Len(documents_to_cache) + page_size - 1) \div page_size)
         IN  IF all.raised THEN Except(all.store, None)
             ELSE WarmPages(enabled, all.store, container, documents_to_cache,
                            1, total_pages, fails))

\* key.split(':')
RECURSIVE Split(_, _)
Split(s, sep) ==
    IF \A i \in 1..Len(s) : s[i] # sep THEN <<s>>
    ELSE LET i == CHOOSE j \in 1..Len(s) :
                      s[j] = sep /\ \A h \in 1..(j - 1) : s[h] # sep
         IN  <<SubSeq(s, 1, i - 1)>> \o Split(SubSeq(s, i + 1, Len(s)), sep)

\* CacheService._group_keys_by_container.  Without decode_responses the store
\* hands out bytes keys, key.split(':') raises TypeError for each and the loop
\* skips it.
_group_keys_by_container(keys, decoded) ==
    LET counted == IF decoded THEN {k \in keys : Len(Split(k, ":")) >= 3} ELSE {}
        names == {Split(k, ":")[2] : k \in counted}
    IN  [container \in names |->
            Cardinality({k \in counted : Split(k, ":")[2] = container})]

\* Faulty variant of get_cache_stats: the store is scanned before the cache is
\* found disabled.
get_cache_stats_scan_first(enabled, st, decoded, f) ==
    Called(LET pattern_keys == RedisKeys(st, AllPattern)
           IN  IF ~enabled THEN Outcome(st, [enabled |-> FALSE], FALSE)
               ELSE IF f # 0 THEN Except(st, [enabled |-> TRUE, error |-> "error"])
               ELSE Outcome(st,
                            [enabled |-> TRUE,
                             total_keys |-> Cardinality(pattern_keys),
                             cache_keys_by_container |->
                                 _group_keys_by_container(pattern_keys, decoded)],
                            FALSE))

\* f = 1: info() fails; f = 2: keys() fails.  (memory_used and
\* connected_clients repeat what info() said and are left out.)
get_cache_stats(enabled, st, decoded, f) ==
    IF ~enabled THEN Outcome(st, [enabled |-> FALSE], FALSE)
    ELSE Called(LET pattern_keys == RedisKeys(st, AllPattern)
         IN  IF f # 0 THEN Except(st, [enabled |-> TRUE, error |-> "error"])
             ELSE Outcome(st,
                          [enabled |-> TRUE,
                           total_keys |-> Cardinality(pattern_keys),
                           cache_keys_by_container |->
                               _group_keys_by_container(pattern_keys, decoded)],
                          FALSE))

(***************************************************************************)
(* The document store (Cosmos DB): a container is its documents, newest    *)
(* _ts first                                                               *)
(***************************************************************************)

\* A document is written id:UserPrompt; its other fields (Query, the prompts'
\* vectors) are not represented, and the searches issued are on UserPrompt.
Doc(id, prompt) == id \o <<":">> \o prompt
DocId(doc) == Split(doc, ":")[1]
UserPrompt(doc) == Split(doc, ":")[2]

\* CONTAINS(text, term)
Contains(text, term) ==
    \E i \in 0..(Len(text) - Len(term)) : SubSeq(text, i + 1, i + Len(term)) = term

RECURSIVE Where(_, _, _)
Where(docs, field, term) ==
    IF docs = <<>> THEN <<>>
    ELSE LET rest == Where(Tail(docs), field, term)
             text == IF field = S_UserPrompt THEN UserPrompt(Head(docs)) ELSE <<>>
         IN  IF Contains(Lower(text), Lower(term)) THEN <<Head(docs)>> \o rest
             ELSE rest

\* SELECT * FROM c ORDER BY c._ts DESC OFFSET @offset LIMIT @limit
QueryPage(docs, page, limit) ==
    Slice(docs, (page - 1) * limit, (page - 1) * limit + limit)

\* SELECT * FROM c ORDER BY c._ts DESC OFFSET 0 LIMIT @limit
QueryAll(docs, limit) == Slice(docs, 0, limit)

\* SELECT * FROM c WHERE CONTAINS(LOWER(c.<field>), LOWER(@search_term))
\* ORDER BY c._ts DESC, with @search_term = q.lower()
QuerySearch(docs, field, q) == Where(docs, field, Lower(q))

Ids(docs) == {DocId(docs[i]) : i \in 1..Len(docs)}

RECURSIVE Without(_, _)
Without(docs, id) ==
    IF docs = <<>> THEN <<>>
    ELSE IF DocId(Head(docs)) = id THEN Without(Tail(docs), id)
    ELSE <<Head(docs)>> \o Without(Tail(docs), id)

\* read_item(item=id, partition_key=id); the caller has checked id \in Ids(docs).
read_item(docs, id) == docs[CHOOSE i \in 1..Len(docs) : DocId(docs[i]) = id]

\* create_item, upsert_item: the written document has the newest _ts.
create_item(docs, doc) == <<doc>> \o docs
upsert_item(docs, doc) == <<doc>> \o Without(docs, DocId(doc))

\* delete_item(item=id, partition_key=id); the caller has checked id \in Ids(docs).
delete_item(docs, id) == Without(docs, id)

(***************************************************************************)
(* State                                                                   *)
(***************************************************************************)

VARIABLES
    redis_url,         \* REDIS_URL when the process started: "unset", or set
                       \* to a store that is "reachable" or "unreachable"
    decode_responses,  \* whether REDIS_URL asks the client for str keys
    cache_enabled,     \* CacheService.cache_enabled
    store,             \* the Redis store: key -> entry
    op,                \* the last call of a CacheService method, with its arguments
    ret,               \* what that call returned
    raised,            \* whether an exception left that call
    clean,             \* the containers invalidated and not written to since
    cosmos,            \* the document store: container -> documents, newest first
    next_id,           \* the ids handed out so far (uuid4 gives a fresh one)
    reqs,              \* the requests in flight, one per slot
    started,           \* how many requests have been started
    history            \* container -> every content the container has had

cache_vars == <<redis_url, decode_responses, cache_enabled, store>>
call_vars == <<op, ret, raised, clean>>
facade_vars == <<cosmos, next_id, reqs, started, history>>
vars == <<cache_vars, call_vars, facade_vars>>

(***************************************************************************)
(* Bounds and inputs                                                       *)
(***************************************************************************)

MaxPage == 1          \* pages asked of the cache: 1..MaxPage
TimeStep == 100       \* seconds per tick of the clock
MaxRequests == 2      \* facade requests per run
MaxId == 3            \* document ids handed out per run

\* Two allowed container names, one a prefix of the other.
Containers == {S_mlb, S_mlb_unofficial}
Pages == 1..MaxPage
Limits == {DEFAULT_LIMIT}
S_Foo == <<"F","o","o">>
S_foo == <<"f","o","o">>
Queries == {S_Foo, S_foo}
Fields == {S_UserPrompt}

\* Record lists handed to the cache: documents are written by their ids.
RecordTable == [i \in 1..1500 |-> IntStr(i)]
Records(n) == SubSeq(RecordTable, 1, n)
Data == {Records(0), Records(1)}

\* The store calls of a method that may fail: all of them against an
\* unreachable store, any one or none against a reachable one.
Fails(n) == IF redis_url = "unreachable" THEN {1} ELSE 0..n
\* For a warm-up of d: its setex calls are 0 (the "all" slot) and one per page.
WarmFails(d) ==
    LET calls == 0..Min(WARM_PAGES, (Min(Len(d), max_cache_size) + page_size - 1) \div page_size)
    IN  IF redis_url = "unreachable" THEN {calls} ELSE SUBSET calls

(***************************************************************************)
(* Calls of the CacheService methods                                       *)
(***************************************************************************)

\* op names the method called and its container, the store calls that failed,
\* for a write how many records it was handed, for an invalidation how many
\* keys its scan found (the count it logs), and whether the method called the
\* store.
Call(name, container, fails) ==
    [name |-> name, container |-> container, fails |-> fails, len |-> 0, n |-> 0,
     called |-> FALSE]

NoCall == Call("none", <<>>, {})

F(f) == IF f = 0 THEN {} ELSE {f}

\* Faulty variant of Do: a call whose store call failed disables the cache.
Do_disable_on_error(out, call) ==
    /\ store' = out.store
    /\ ret' = out.ret
    /\ raised' = out.raised
    /\ op' = [call EXCEPT !.called = out.called]
    /\ cache_enabled' = (cache_enabled /\ call.fails = {})
    /\ UNCHANGED <<redis_url, decode_responses, facade_vars>>

\* The call is made: its outcome becomes the state.
Do(out, call) ==
    /\ store' = out.store
    /\ ret' = out.ret
    /\ raised' = out.raised
    /\ op' = [call EXCEPT !.called = out.called]
    /\ UNCHANGED <<redis_url, decode_responses, cache_enabled, facade_vars>>

GetPage(c, p, l, f) ==
    /\ Do(get_page_cache(cache_enabled, store, c, p, l, f),
          Call("get_page_cache", c, F(f)))
    /\ UNCHANGED clean

SetPage(c, p, d, l, f) ==
    /\ Do(set_page_cache(cache_enabled, store, c, p, d, l, f),
          [Call("set_page_cache", c, F(f)) EXCEPT !.len = Len(d)])
    /\ clean' = clean \ {c}

GetAll(c, f) ==
    /\ Do(get_all_cache(cache_enabled, store, c, f),
          Call("get_all_cache", c, F(f)))
    /\ UNCHANGED clean

SetAll(c, d, f) ==
    /\ Do(set_all_cache(cache_enabled, store, c, d, f),
          [Call("set_all_cache", c, F(f)) EXCEPT !.len = Len(d)])
    /\ clean' = clean \ {c}

GetSearch(c, q, fld, f) ==
    /\ Do(get_search_cache(cache_enabled, store, c, q, fld, f),
          Call("get_search_cache", c, F(f)))
    /\ UNCHANGED clean

SetSearch(c, q, fld, d, f) ==
    /\ Do(set_search_cache(cache_enabled, store, c, q, fld, d, f),
          [Call("set_search_cache", c, F(f)) EXCEPT !.len = Len(d)])
    /\ clean' = clean \ {c}

Invalidate(c, f) ==
    /\ Do(invalidate_container_cache(cache_enabled, store, c, f),
          [Call("invalidate_container_cache", c, F(f))
              EXCEPT !.n = Cardinality(RedisKeys(store, ContainerPattern(c)))])
    /\ clean' = IF f = 0 THEN clean \cup {c} ELSE clean

InvalidateAll(f) ==
    /\ Do(invalidate_all_cache(cache_enabled, store, f),
          [Call("invalidate_all_cache", <<>>, F(f))
              EXCEPT !.n = Cardinality(RedisKeys(store, AllPattern))])
    /\ UNCHANGED clean

Warm(c, d, fs) ==
    /\ Do(warm_cache_for_container(cache_enabled, store, c, d, fs),
          [Call("warm_cache_for_container", c, fs) EXCEPT !.len = Len(d)])
    /\ clean' = clean \ {c}

Stats(f) ==
    /\ Do(get_cache_stats(cache_enabled, store, decode_responses, f),
          Call("get_cache_stats", <<>>, F(f)))
    /\ UNCHANGED clean

\* The clock: TimeStep seconds pass and the store drops what has expired.
Tick ==
    /\ store' = Expire(store, TimeStep)
    /\ op' = NoCall
    /\ UNCHANGED <<redis_url, decode_responses, cache_enabled, ret, raised, clean,
                   facade_vars>>

(***************************************************************************)
(* The CacheService on its own: any sequence of calls of its methods       *)
(***************************************************************************)

InitCache ==
    /\ redis_url \in {"unset", "reachable", "unreachable"}
    /\ decode_responses = FALSE
    /\ cache_enabled = InitEnabled(redis_url)
    /\ store = <<>>
    /\ op = NoCall
    /\ ret = None
    /\ raised = FALSE
    /\ clean = {}

\* The facade's containers, one official and one not, and their documents
\* when the service starts.
FacadeContainers == {S_nba_official, S_nba_unofficial}
Official == {S_mlb, S_nba_official}

\* config.py: the legacy container names.
S_mlb_partner_feedback_helpful ==
    <<"m","l","b","-","p","a","r","t","n","e","r","-","f","e","e","d","b","a","c","k",
      "-","h","e","l","p","f","u","l">>
S_mlb_partner_feedback_unhelpful ==
    <<"m","l","b","-","p","a","r","t","n","e","r","-","f","e","e","d","b","a","c","k",
      "-","u","n","h","e","l","p","f","u","l">>
S_mlb_user_feedback ==
    <<"m","l","b","-","u","s","e","r","-","f","e","e","d","b","a","c","k">>
S_mlb_user_feedback_unhelpful ==
    <<"m","l","b","-","u","s","e","r","-","f","e","e","d","b","a","c","k",
      "-","u","n","h","e","l","p","f","u","l">>

ALLOWED_CONTAINERS ==
    {S_mlb, S_mlb_unofficial, S_nba_official, S_nba_unofficial,
     S_mlb_partner_feedback_helpful, S_mlb_partner_feedback_unhelpful,
     S_mlb_user_feedback, S_mlb_user_feedback_unhelpful}

\* Faulty variant of validate_container_name: any non-empty name passes.
validate_container_name_any(container_name) == container_name # <<>>

\* validate_container_name: TRUE when the name passes, FALSE when it raises
\* HTTPException(400).
validate_container_name(container_name) == container_name \in ALLOWED_CONTAINERS

\* The names requests come with: the facade's containers and names that are
\* not allowed, one of them an allowed name in other case.
S_users == <<"u","s","e","r","s">>
S_NBA_official == <<"N","B","A","-","o","f","f","i","c","i","a","l">>
UnknownContainers == {S_users, S_NBA_official}
RequestContainers == FacadeContainers \cup UnknownContainers
S_bar == <<"b","a","r">>
InitialDocuments ==
    [c \in FacadeContainers |->
        IF c = S_nba_unofficial
        THEN <<Doc(IntStr(2), S_foo), Doc(IntStr(1), S_bar)>>
        ELSE <<Doc(IntStr(3), S_foo)>>]

\* str(uuid4()): an id no document has had.
NewId(n) == IntStr(4 + n)

\* Requests are served in slots; a slot is free when its request is done.  A
\* request records the container names it has handed to a cache or document
\* store operation (calls), whether an embedding was generated for it and
\* what the search index answered.
Slots == {1, 2}
Idle ==
    [kind |-> "idle", pc |-> "done", container |-> <<>>, target |-> <<>>,
     id |-> <<>>, doc |-> <<>>, page |-> 0, limit |-> 0, q |-> <<>>,
     field |-> <<>>, items |-> <<>>, hit |-> FALSE, changed |-> {},
     invalidated |-> {}, status |-> 0, resp |-> <<>>,
     calls |-> {}, embedding |-> "none", search |-> "none"]

InitFacade ==
    /\ cosmos = InitialDocuments
    /\ next_id = 0
    /\ reqs = [s \in Slots |-> Idle]
    /\ started = 0
    /\ history = [c \in FacadeContainers |-> {InitialDocuments[c]}]

Init == InitCache /\ InitFacade

Next ==
    \/ \E c \in Containers, p \in Pages, l \in Limits, f \in Fails(1) :
           GetPage(c, p, l, f)
    \/ \E c \in Containers, p \in Pages, l \in Limits, d \in Data, f \in Fails(1) :
           SetPage(c, p, d, l, f)
    \/ \E c \in Containers, f \in Fails(1) : GetAll(c, f)
    \/ \E c \in Containers, d \in Data, f \in Fails(1) : SetAll(c, d, f)
    \/ \E c \in Containers, q \in Queries, fld \in Fields, f \in Fails(1) :
           GetSearch(c, q, fld, f)
    \/ \E c \in Containers, q \in Queries, fld \in Fields, d \in Data, f \in Fails(1) :
           SetSearch(c, q, fld, d, f)
    \/ \E c \in Containers, f \in Fails(2) : Invalidate(c, f)
    \/ \E f \in Fails(2) : InvalidateAll(f)
    \/ \E c \in Containers, d \in Data : \E fs \in WarmFails(d) : Warm(c, d, fs)
    \/ \E f \in Fails(2) : Stats(f)

Spec == Init /\ [][Next]_vars

(***************************************************************************)
(* Properties of the CacheService                                          *)
(***************************************************************************)

Gets == {"get_page_cache", "get_all_cache", "get_search_cache"}

\* Every key the calls above can build for container c.
KeysOf(c) ==
    {PageKey(c, p, l) : p \in Pages, l \in Limits}
        \cup {AllKey(c)}
        \cup {SearchKey(c, q, fld) : q \in Queries, fld \in Fields}

\* Every get on container c finds nothing in store st.
AllAbsent(st, c) ==
    /\ \A k \in KeysOf(c) : k \notin DOMAIN st
    /\ \A p \in Pages, l \in Limits :
           get_page_cache(TRUE, st, c, p, l, 0).ret = None
    /\ get_all_cache(TRUE, st, c, 0).ret = None
    /\ \A q \in Queries, fld \in Fields :
           get_search_cache(TRUE, st, c, q, fld, 0).ret = None

\* C1: on an enabled cache with a reachable store, a container that was
\* invalidated (the calls of invalidate_container_cache succeeding) and not
\* written to since has no entry of any kind, and every get on it returns None.
C1_InvalidatedContainerHasNoEntry ==
    (cache_enabled /\ redis_url = "reachable") =>
        /\ \A c \in clean : AllAbsent(store, c)
        /\ (op.name \in Gets /\ op.container \in clean) => ret = None

\* An invalidation has just deleted a page, an "all" and a search entry.
C1_Witness ==
    /\ cache_enabled /\ redis_url = "reachable"
    /\ op.name = "invalidate_container_cache" /\ op.fails = {} /\ op.n = 3
    /\ op.container \in clean

\* C2: invalidate_container_cache(A) leaves every entry of every other
\* container B as it was (present or not, same value, ttl and age), also when
\* A's name is a prefix of B's, so every get on B returns what it did before.
C2_InvalidateLeavesOtherContainers ==
    [][op'.name = "invalidate_container_cache" =>
          \A b \in Containers \ {op'.container} :
              /\ \A k \in KeysOf(b) :
                     /\ k \in DOMAIN store' <=> k \in DOMAIN store
                     /\ k \in DOMAIN store => store'[k] = store[k]
              /\ \A p \in Pages, l \in Limits :
                     get_page_cache(cache_enabled, store', b, p, l, 0).ret
                         = get_page_cache(cache_enabled, store, b, p, l, 0).ret]_vars

\* "mlb" has just been invalidated while "mlb-unofficial" holds a page, an
\* "all" and a search entry.
C2_Witness ==
    /\ op.name = "invalidate_container_cache" /\ op.fails = {} /\ op.n > 0
    /\ op.container = S_mlb
    /\ KeysOf(S_mlb_unofficial) \subseteq DOMAIN store
    /\ get_page_cache(cache_enabled, store, S_mlb_unofficial, 1, DEFAULT_LIMIT, 0).ret
           = Some(Records(1))

\* C3: with a CacheService constructed against an unreachable store (or none)
\* every get returns None, every set and invalidate leaves the store alone,
\* get_cache_stats returns {enabled: False}, and no call raises.
C3_UnreachableStoreIsDisabled ==
    redis_url # "reachable" =>
        /\ ~raised
        /\ store = <<>>
        /\ op.name \in Gets => ret = None
        /\ op.name = "get_cache_stats" => ret = [enabled |-> FALSE]

\* C4: no call of a CacheService method raises, whichever store call failed,
\* and a get whose store call failed returns None as a miss does.
C4_NoCacheErrorPropagates ==
    /\ ~raised
    /\ (op.name \in Gets /\ op.fails # {}) => ret = None

\* A get has just failed on an entry that is there.
C4_Witness ==
    /\ redis_url = "reachable"
    /\ op.name = "get_all_cache" /\ op.fails = {1}
    /\ AllKey(op.container) \in DOMAIN store
    /\ ret = None /\ ~raised

\* No page or "all" entry of store st holds the empty list.
NoEmptyPageOrAll(st) ==
    \A c \in Containers :
        /\ \A p \in Pages, l \in Limits :
               PageKey(c, p, l) \in DOMAIN st
                   => Loads(st[PageKey(c, p, l)].val) # <<>>
        /\ AllKey(c) \in DOMAIN st => Loads(st[AllKey(c)].val) # <<>>

\* C5: set_page_cache and set_all_cache called with an empty list leave the
\* store as it is, no page or "all" entry ever holds an empty list, and a
\* get_page_cache after set_page_cache(c, p, [], l) on an empty cache is None.
C5_EmptyWriteGuard ==
    /\ []NoEmptyPageOrAll(store)
    /\ [][(op'.name \in {"set_page_cache", "set_all_cache"} /\ op'.len = 0) =>
              /\ store' = store
              /\ store = <<>> =>
                     /\ \A p \in Pages, l \in Limits :
                            get_page_cache(cache_enabled, store', op'.container,
                                           p, l, 0).ret = None
                     /\ get_all_cache(cache_enabled, store', op'.container, 0).ret
                            = None]_vars

\* set_page_cache has just been called with an empty list on an enabled,
\* empty cache.
C5_Witness ==
    /\ cache_enabled /\ redis_url = "reachable"
    /\ op.name = "set_page_cache" /\ op.len = 0 /\ op.fails = {}
    /\ store = <<>>

\* C6: set_search_cache called with an empty list is a no-op: no search entry
\* holds an empty list and no get_search_cache returns one.
C6_EmptySearchNotCached ==
    \A c \in Containers, q \in Queries, fld \in Fields :
        /\ SearchKey(c, q, fld) \in DOMAIN store
               => Loads(store[SearchKey(c, q, fld)].val) # <<>>
        /\ get_search_cache(cache_enabled, store, c, q, fld, 0).ret # Some(<<>>)

(***************************************************************************)
(* The CacheService and the clock: writes and reads of one container while *)
(* time passes                                                             *)
(***************************************************************************)

TTLContainers == {S_mlb}

NextTTL ==
    \/ \E c \in TTLContainers, p \in Pages, l \in Limits, f \in Fails(1) :
           GetPage(c, p, l, f)
    \/ \E c \in TTLContainers, p \in Pages, l \in Limits, d \in Data, f \in Fails(1) :
           SetPage(c, p, d, l, f)
    \/ \E c \in TTLContainers, f \in Fails(1) : GetAll(c, f)
    \/ \E c \in TTLContainers, d \in Data, f \in Fails(1) : SetAll(c, d, f)
    \/ \E c \in TTLContainers, q \in Queries, fld \in Fields, f \in Fails(1) :
           GetSearch(c, q, fld, f)
    \/ \E c \in TTLContainers, q \in Queries, fld \in Fields, d \in Data,
          f \in Fails(1) :
           SetSearch(c, q, fld, d, f)
    \/ Tick

SpecTTL == Init /\ [][NextTTL]_vars

\* Every entry of a kind is younger than the kind's ttl.
YoungerThanTTL(st) ==
    \A c \in TTLContainers :
        /\ \A p \in Pages, l \in Limits :
               PageKey(c, p, l) \in DOMAIN st => st[PageKey(c, p, l)].age < 300
        /\ AllKey(c) \in DOMAIN st => st[AllKey(c)].age < 600
        /\ \A q \in Queries, fld \in Fields :
               SearchKey(c, q, fld) \in DOMAIN st
                   => st[SearchKey(c, q, fld)].age < 180

\* C9: an entry written by set_page_cache, set_all_cache or set_search_cache
\* is returned by the matching get right after the write, and is gone once the
\* ttl of its kind has passed since it was last written: 300 seconds for a
\* page, 600 for "all", 180 for a search.
C9_TTLRespected ==
    /\ []YoungerThanTTL(store)
    /\ [][(cache_enabled /\ op'.fails = {} /\ op'.len > 0) =>
              \A c \in TTLContainers, d \in Data \ {<<>>} :
                  /\ \A p \in Pages, l \in Limits :
                         SetPage(c, p, d, l, 0) =>
                             get_page_cache(cache_enabled, store', c, p, l, 0).ret
                                 = Some(d)
                  /\ SetAll(c, d, 0) =>
                         get_all_cache(cache_enabled, store', c, 0).ret = Some(d)
                  /\ \A q \in Queries, fld \in Fields :
                         SetSearch(c, q, fld, d, 0) =>
                             get_search_cache(cache_enabled, store', c, q, fld, 0).ret
                                 = Some(d)]_vars

\* An "all" entry has outlived the ttl of a page and of a search; the page
\* written before it is gone and a search written later is still there.
C9_Witness ==
    /\ AllKey(S_mlb) \in DOMAIN store /\ store[AllKey(S_mlb)].age >= 300
    /\ PageKey(S_mlb, 1, DEFAULT_LIMIT) \notin DOMAIN store
    /\ SearchKey(S_mlb, S_foo, S_UserPrompt) \in DOMAIN store
    /\ op.name = "get_all_cache" /\ op.fails = {} /\ ret = Some(Records(1))

(***************************************************************************)
(* Warming: warm_cache_for_container on lists of up to 1500 documents      *)
(***************************************************************************)

\* Sizes around the page size, the three warmed pages and the cap.
WarmSizes == {1, 20, 21, 61, 1000, 1500}
WarmContainers == {S_mlb}
WarmReadPages == 1..(WARM_PAGES + 1)

\* A warm-up with every setex succeeding, or one of them failing.
WarmFailsOne(d) ==
    LET calls == 0..Min(WARM_PAGES, (Min(Len(d), max_cache_size) + page_size - 1) \div page_size)
    IN  IF redis_url = "unreachable" THEN {calls}
        ELSE {{}} \cup {{i} : i \in calls}

NextWarm ==
    \/ \E c \in WarmContainers, n \in WarmSizes :
           \E fs \in WarmFailsOne(Records(n)) : Warm(c, Records(n), fs)
    \/ \E c \in WarmContainers, p \in WarmReadPages, f \in Fails(1) :
           GetPage(c, p, page_size, f)
    \/ \E c \in WarmContainers, f \in Fails(1) : GetAll(c, f)
    \/ \E c \in Containers, f \in Fails(1) :
           SetPage(c, WARM_PAGES + 1, Records(1), page_size, f)
    \/ \E c \in WarmContainers, f \in Fails(2) : Invalidate(c, f)

SpecWarm == Init /\ [][NextWarm]_vars

\* C10: a warm-up of container c with n >= 1 records whose store calls all
\* succeed leaves in the "all" slot the first min(n, 1000) records, in page p
\* (limit 20) records 20(p-1)+1 .. 20p of those for p = 1 .. min(3,
\* ceil(min(n, 1000) / 20)), writes nothing else, and raises nothing; for
\* n = 1500 that is 1000 records and pages 1 to 3 of 20 records each.
C10_WarmStoresCappedAllAndThreePages ==
    [][(op'.name = "warm_cache_for_container" /\ op'.fails = {} /\ op'.len >= 1
            /\ cache_enabled /\ redis_url = "reachable") =>
          LET c == op'.container
              n == op'.len
              m == IF n < 1000 THEN n ELSE 1000
              pages == IF (m + 19) \div 20 < 3 THEN (m + 19) \div 20 ELSE 3
              capped == [i \in 1..m |-> Records(n)[i]]
              written == {AllKey(c)} \cup {PageKey(c, p, 20) : p \in 1..pages}
          IN  /\ ~raised'
              /\ get_all_cache(TRUE, store', c, 0).ret = Some(capped)
              /\ \A p \in 1..pages :
                     get_page_cache(TRUE, store', c, p, 20, 0).ret
                         = Some([i \in 1..(IF 20 * p < m THEN 20 ELSE m - 20 * (p - 1))
                                     |-> capped[20 * (p - 1) + i]])
              /\ DOMAIN store' = DOMAIN store \cup written
              /\ \A k \in DOMAIN store \ written : store'[k] = store[k]
              /\ n = 1500 =>
                     /\ Len(get_all_cache(TRUE, store', c, 0).ret[1]) = 1000
                     /\ pages = 3
                     /\ \A p \in 1..3 :
                            Len(get_page_cache(TRUE, store', c, p, 20, 0).ret[1]) = 20]_vars

\* 1500 records have just been warmed into an empty container: 1000 are in
\* the "all" slot, page 3 is there and page 4 is not.
C10_Witness ==
    /\ cache_enabled /\ redis_url = "reachable" /\ ~raised
    /\ op.name = "warm_cache_for_container" /\ op.fails = {} /\ op.len = 1500
    /\ Len(Loads(store[AllKey(op.container)].val)) = 1000
    /\ PageKey(op.container, 3, 20) \in DOMAIN store
    /\ PageKey(op.container, 4, 20) \notin DOMAIN store

(***************************************************************************)
(* The facade (main.py): request handlers, one action per step between two *)
(* calls of the document store, the cache or an awaited service            *)
(***************************************************************************)

\* Against an unreachable store every cache call fails, otherwise none does.
CacheF == IF redis_url = "unreachable" THEN 1 ELSE 0

\* A handler is entered in the first free slot.
Free(s) ==
    /\ reqs[s].pc = "done"
    /\ \A t \in Slots : t < s => reqs[t].pc # "done"
    /\ started < MaxRequests

Begin(kind, container) ==
    [Idle EXCEPT !.kind = kind, !.container = container]

\* return / raise HTTPException: the request is done; what it asked for and
\* what it got stay in its slot until the next request takes the slot.
Finish(r, status, resp) ==
    [r EXCEPT !.pc = "done", !.status = status, !.resp = resp,
              !.items = <<>>, !.doc = <<>>, !.id = <<>>, !.target = <<>>]

\* A step of the request in slot s: r is the request after it, st the cache
\* store after it.
Step(s, r, st) ==
    /\ reqs' = [reqs EXCEPT ![s] = r]
    /\ store' = st
    /\ UNCHANGED <<redis_url, decode_responses, cache_enabled, call_vars>>

Enter(s, r, st) ==
    /\ Free(s)
    /\ started' = started + 1
    /\ Step(s, r, st)

At(s, kind, pc) == reqs[s].kind = kind /\ reqs[s].pc = pc

\* The document store has the container; for any other name its operations
\* raise.
Exists(c) == c \in DOMAIN cosmos

\* The request hands the names cs to a cache or document store operation.
Calling(r, cs) == [r EXCEPT !.calls = @ \cup cs]

\* validate_container_name raised: the handler is left with a 400 before its
\* try block is entered.
Rejected(s, kind, container, target) ==
    /\ Enter(s, [Finish(Begin(kind, container), 400, <<>>) EXCEPT !.target = target],
             store)
    /\ UNCHANGED <<cosmos, history, next_id>>

\* The ids a request may name in container c.
RequestIds(c) == IF Exists(c) THEN Ids(cosmos[c]) ELSE {IntStr(1)}

\* cached_data = cache_service.get_..._cache(...); if cached_data: return ...
\* None and the empty list are both falsy.
Hit(out) == out.ret # None /\ out.ret[1] # <<>>

\* The document store changes container c to docs.
Write(c, docs) ==
    /\ cosmos' = [cosmos EXCEPT ![c] = docs]
    /\ history' = [history EXCEPT ![c] = @ \cup {docs}]

\* get_documents, lines 172-181: validate, cache lookup.
get_documents_lookup(s, c, page, limit) ==
    IF ~validate_container_name(c) THEN Rejected(s, "get_documents", c, <<>>)
    ELSE
    LET r == [Begin("get_documents", c) EXCEPT !.page = page, !.limit = limit,
                                               !.calls = {c}]
        out == get_page_cache(cache_enabled, store, c, page, limit, CacheF)
    IN  /\ Enter(s, IF Hit(out) THEN Finish([r EXCEPT !.hit = TRUE], 200, out.ret[1])
                    ELSE [r EXCEPT !.pc = "query"], out.store)
        /\ UNCHANGED <<cosmos, history, next_id>>

\* get_documents, lines 183-199: the query, which the document store may refuse.
get_documents_query(s, ok) ==
    LET r == Calling(reqs[s], {reqs[s].container})
    IN  /\ At(s, "get_documents", "query")
        /\ Step(s, IF ok /\ Exists(r.container) THEN [r EXCEPT !.pc = "set",
                                        !.items = QueryPage(cosmos[r.container],
                                                            r.page, r.limit)]
                   ELSE Finish(r, 500, <<>>), store)
        /\ UNCHANGED <<cosmos, history, next_id, started>>

\* get_documents, lines 202-208: cache the items and return them.
get_documents_set(s) ==
    LET r == Calling(reqs[s], {reqs[s].container})
        out == set_page_cache(cache_enabled, store, r.container, r.page, r.items,
                              r.limit, CacheF)
    IN  /\ At(s, "get_documents", "set")
        /\ Step(s, Finish(r, 200, r.items), out.store)
        /\ UNCHANGED <<cosmos, history, next_id, started>>

\* search_documents, lines 219-228: validate, field check, cache lookup.  The
\* HTTPException(400) of the field check is raised inside the try and leaves
\* the handler as a 500.
search_documents_lookup(s, c, q, field) ==
    IF ~validate_container_name(c) THEN Rejected(s, "search_documents", c, <<>>)
    ELSE
    LET r == [Begin("search_documents", c) EXCEPT !.q = q, !.field = field]
        out == get_search_cache(cache_enabled, store, c, q, field, CacheF)
    IN  /\ Enter(s, IF field \notin {S_UserPrompt, S_Query} THEN Finish(r, 500, <<>>)
                    ELSE IF Hit(out)
                         THEN Finish([r EXCEPT !.hit = TRUE, !.calls = {c}],
                                     200, out.ret[1])
                    ELSE [r EXCEPT !.pc = "query", !.calls = {c}],
                 IF field \notin {S_UserPrompt, S_Query} THEN store ELSE out.store)
        /\ UNCHANGED <<cosmos, history, next_id>>

\* search_documents, lines 230-247.
search_documents_query(s, ok) ==
    LET r == Calling(reqs[s], {reqs[s].container})
    IN  /\ At(s, "search_documents", "query")
        /\ Step(s, IF ok /\ Exists(r.container) THEN [r EXCEPT !.pc = "set",
                                        !.items = QuerySearch(cosmos[r.container],
                                                              r.field, r.q)]
                   ELSE Finish(r, 500, <<>>), store)
        /\ UNCHANGED <<cosmos, history, next_id, started>>

\* search_documents, lines 250-253.
search_documents_set(s) ==
    LET r == Calling(reqs[s], {reqs[s].container})
        out == set_search_cache(cache_enabled, store, r.container, r.q, r.field,
                                r.items, CacheF)
    IN  /\ At(s, "search_documents", "set")
        /\ Step(s, Finish(r, 200, r.items), out.store)
        /\ UNCHANGED <<cosmos, history, next_id, started>>

\* get_all_documents, lines 264-280: validate, cap the limit, cache lookup
\* when limit <= 1000; a hit returns cached_data[:limit].
get_all_documents_lookup(s, c, limit0) ==
    IF ~validate_container_name(c) THEN Rejected(s, "get_all_documents", c, <<>>)
    ELSE
    LET limit == IF limit0 > 5000 THEN 5000 ELSE limit0
        r == [Begin("get_all_documents", c)
                  EXCEPT !.limit = limit,
                         !.calls = IF limit <= 1000 THEN {c} ELSE {}]
        out == IF limit <= 1000
               THEN get_all_cache(cache_enabled, store, c, CacheF)
               ELSE Outcome(store, None, FALSE)
    IN  /\ Enter(s, IF Hit(out)
                    THEN Finish([r EXCEPT !.hit = TRUE], 200,
                                Slice(out.ret[1], 0, limit))
                    ELSE [r EXCEPT !.pc = "query"], out.store)
        /\ UNCHANGED <<cosmos, history, next_id>>

\* get_all_documents, lines 282-295.
get_all_documents_query(s, ok) ==
    LET r == Calling(reqs[s], {reqs[s].container})
    IN  /\ At(s, "get_all_documents", "query")
        /\ Step(s, IF ok /\ Exists(r.container) THEN [r EXCEPT !.pc = "set",
                                        !.items = QueryAll(cosmos[r.container], r.limit)]
                   ELSE Finish(r, 500, <<>>), store)
        /\ UNCHANGED <<cosmos, history, next_id, started>>

\* Faulty variant of get_all_documents_set: the result is cached whatever its
\* size.
get_all_documents_set_any_size(s) ==
    LET r == Calling(reqs[s], {reqs[s].container})
        out == set_all_cache(cache_enabled, store, r.container, r.items, CacheF)
    IN  /\ At(s, "get_all_documents", "set")
        /\ Step(s, Finish(r, 200, r.items), out.store)
        /\ UNCHANGED <<cosmos, history, next_id, started>>

\* get_all_documents, lines 298-305: cache when len(items) <= 1000.
get_all_documents_set(s) ==
    LET r == Calling(reqs[s], IF Len(reqs[s].items) <= 1000
                                  THEN {reqs[s].container} ELSE {})
        out == IF Len(r.items) <= 1000
               THEN set_all_cache(cache_enabled, store, r.container, r.items, CacheF)
               ELSE Outcome(store, None, FALSE)
    IN  /\ At(s, "get_all_documents", "set")
        /\ Step(s, Finish(r, 200, r.items), out.store)
        /\ UNCHANGED <<cosmos, history, next_id, started>>

\* cache_service.invalidate_container_cache(c) called by the request in slot s.
InvalidateStep(s, c, r) ==
    LET out == invalidate_container_cache(cache_enabled, store, c, CacheF)
    IN  Step(s, [r EXCEPT !.invalidated = @ \cup {c}, !.calls = @ \cup {c}],
             out.store)

\* create_document, lines 315-341: validate, new id, and for an official
\* container the embedding of UserPrompt; get_embedding returns None when the
\* embedding service fails, and the handler raises.
create_document_embed(s, c, prompt, ok) ==
    IF ~validate_container_name(c) THEN Rejected(s, "create_document", c, <<>>)
    ELSE
    LET embeds == c \in Official /\ prompt # <<>>
        r == [Begin("create_document", c)
                  EXCEPT !.doc = Doc(NewId(next_id), prompt), !.calls = {c},
                         !.embedding = IF ~embeds THEN "none"
                                       ELSE IF ok THEN "ok" ELSE "failed"]
    IN  /\ next_id < MaxId
        /\ next_id' = next_id + 1
        /\ Enter(s, IF embeds /\ ~ok THEN Finish(r, 500, <<>>)
                    ELSE [r EXCEPT !.pc = "write"], store)
        /\ UNCHANGED <<cosmos, history>>

\* Faulty variant of create_document_write: the cache is invalidated before
\* create_item is called.
create_document_write_invalidate_first(s, ok) ==
    LET r == [Calling(reqs[s], {reqs[s].container})
                  EXCEPT !.invalidated = @ \cup {reqs[s].container}]
        out == invalidate_container_cache(cache_enabled, store, r.container, CacheF)
    IN  /\ At(s, "create_document", "write")
        /\ IF ok /\ Exists(r.container)
           THEN /\ Write(r.container, create_item(cosmos[r.container], r.doc))
                /\ Step(s, [r EXCEPT !.pc = "invalidate",
                                     !.changed = @ \cup {r.container}], out.store)
           ELSE /\ Step(s, Finish(r, 500, <<>>), out.store)
                /\ UNCHANGED <<cosmos, history>>
        /\ UNCHANGED <<next_id, started>>

\* create_document, line 343: create_item, which the document store may refuse.
create_document_write(s, ok) ==
    LET r == Calling(reqs[s], {reqs[s].container})
    IN  /\ At(s, "create_document", "write")
        /\ IF ok /\ Exists(r.container)
           THEN /\ Write(r.container, create_item(cosmos[r.container], r.doc))
                /\ Step(s, [r EXCEPT !.pc = "invalidate",
                                     !.changed = @ \cup {r.container}], store)
           ELSE /\ Step(s, Finish(r, 500, <<>>), store)
                /\ UNCHANGED <<cosmos, history>>
        /\ UNCHANGED <<next_id, started>>

\* create_document, lines 346-349.
create_document_invalidate(s) ==
    LET r == reqs[s]
    IN  /\ At(s, "create_document", "invalidate")
        /\ InvalidateStep(s, r.container, Finish(r, 200, <<r.doc>>))
        /\ UNCHANGED <<cosmos, history, next_id, started>>

\* update_document, lines 359-384.
update_document_embed(s, c, doc_id, prompt, ok) ==
    IF ~validate_container_name(c) THEN Rejected(s, "update_document", c, <<>>)
    ELSE
    LET embeds == c \in Official /\ prompt # <<>>
        r == [Begin("update_document", c)
                  EXCEPT !.id = doc_id, !.doc = Doc(doc_id, prompt), !.calls = {c},
                         !.embedding = IF ~embeds THEN "none"
                                       ELSE IF ok THEN "ok" ELSE "failed"]
    IN  /\ Enter(s, IF embeds /\ ~ok THEN Finish(r, 500, <<>>)
                    ELSE [r EXCEPT !.pc = "write"], store)
        /\ UNCHANGED <<cosmos, history, next_id>>

\* update_document, line 386: upsert_item.
update_document_write(s, ok) ==
    LET r == Calling(reqs[s], {reqs[s].container})
    IN  /\ At(s, "update_document", "write")
        /\ IF ok /\ Exists(r.container)
           THEN /\ Write(r.container, upsert_item(cosmos[r.container], r.doc))
                /\ Step(s, [r EXCEPT !.pc = "invalidate",
                                     !.changed = @ \cup {r.container}], store)
           ELSE /\ Step(s, Finish(r, 500, <<>>), store)
                /\ UNCHANGED <<cosmos, history>>
        /\ UNCHANGED <<next_id, started>>

\* update_document, lines 389-392.
update_document_invalidate(s) ==
    LET r == reqs[s]
    IN  /\ At(s, "update_document", "invalidate")
        /\ InvalidateStep(s, r.container, Finish(r, 200, <<r.doc>>))
        /\ UNCHANGED <<cosmos, history, next_id, started>>

\* delete_document, lines 401-409: delete_item raises when the document is
\* not there or the document store refuses.
delete_document_delete(s, c, doc_id, ok) ==
    IF ~validate_container_name(c) THEN Rejected(s, "delete_document", c, <<>>)
    ELSE
    LET r == [Begin("delete_document", c) EXCEPT !.id = doc_id, !.calls = {c}]
    IN  /\ IF ok /\ Exists(c) /\ doc_id \in Ids(cosmos[c])
           THEN /\ Write(c, delete_item(cosmos[c], doc_id))
                /\ Enter(s, [r EXCEPT !.pc = IF c = S_nba_official THEN "search"
                                             ELSE "invalidate",
                                      !.changed = {c}], store)
           ELSE /\ Enter(s, Finish(r, 500, <<>>), store)
                /\ UNCHANGED <<cosmos, history>>
        /\ UNCHANGED next_id

\* What the search index deletion comes to: the service is not configured
\* and is skipped, or delete_document answers True (deleted, or not in the
\* index) or False (the deletion failed or raised inside the service).
SearchOutcomes == {"unconfigured", "deleted", "failed"}

\* Faulty variant of delete_document_search: a deletion the search index did
\* not carry out fails the request.
delete_document_search_fatal(s, outcome) ==
    LET r == reqs[s]
    IN  /\ At(s, "delete_document", "search")
        /\ Step(s, IF outcome = "deleted"
                   THEN [r EXCEPT !.pc = "invalidate", !.search = outcome]
                   ELSE Finish([r EXCEPT !.search = outcome], 500, <<>>), store)
        /\ UNCHANGED <<cosmos, history, next_id, started>>

\* delete_document, lines 412-420: for "nba-official" the search index
\* deletion is awaited when the service is configured; its result is logged
\* and nothing else.
delete_document_search(s, outcome) ==
    LET r == reqs[s]
    IN  /\ At(s, "delete_document", "search")
        /\ Step(s, [r EXCEPT !.pc = "invalidate", !.search = outcome], store)
        /\ UNCHANGED <<cosmos, history, next_id, started>>

\* delete_document, lines 423-426.
delete_document_invalidate(s) ==
    LET r == reqs[s]
    IN  /\ At(s, "delete_document", "invalidate")
        /\ InvalidateStep(s, r.container, Finish(r, 200, <<>>))
        /\ UNCHANGED <<cosmos, history, next_id, started>>

\* transfer_document, lines 437-450: both container clients, read_item from
\* the source (it raises when the document is not there), a new id.
transfer_document_read(s, source_container, target_container, doc_id, ok) ==
    IF ~validate_container_name(source_container)
       \/ ~validate_container_name(target_container)
    THEN Rejected(s, "transfer_document", source_container, target_container)
    ELSE
    LET r == [Begin("transfer_document", source_container)
                  EXCEPT !.target = target_container, !.id = doc_id,
                         !.calls = {source_container, target_container}]
        found == /\ ok /\ Exists(source_container) /\ Exists(target_container)
                 /\ doc_id \in Ids(cosmos[source_container])
        doc == read_item(cosmos[source_container], doc_id)
    IN  /\ next_id < MaxId
        /\ next_id' = IF found THEN next_id + 1 ELSE next_id
        /\ Enter(s, IF ~found THEN Finish(r, 500, <<>>)
                    ELSE [r EXCEPT !.doc = Doc(NewId(next_id), UserPrompt(doc)),
                                   !.pc = IF target_container \in Official
                                              /\ UserPrompt(doc) # <<>>
                                          THEN "embed" ELSE "create"], store)
        /\ UNCHANGED <<cosmos, history>>

\* transfer_document, lines 453-471: the embedding is awaited and assigned
\* whatever get_embedding returned; None is not checked for.
transfer_document_embed(s, ok) ==
    LET r == reqs[s]
    IN  /\ At(s, "transfer_document", "embed")
        /\ Step(s, [r EXCEPT !.pc = "create",
                             !.embedding = IF ok THEN "ok" ELSE "failed"], store)
        /\ UNCHANGED <<cosmos, history, next_id, started>>

\* transfer_document, line 474: create_item in the target container.
transfer_document_create(s, ok) ==
    LET r == Calling(reqs[s], {reqs[s].target})
    IN  /\ At(s, "transfer_document", "create")
        /\ IF ok /\ Exists(r.target)
           THEN /\ Write(r.target, create_item(cosmos[r.target], r.doc))
                /\ Step(s, [r EXCEPT !.pc = "delete",
                                     !.changed = @ \cup {r.target}], store)
           ELSE /\ Step(s, Finish(r, 500, <<>>), store)
                /\ UNCHANGED <<cosmos, history>>
        /\ UNCHANGED <<next_id, started>>

\* transfer_document, line 477: delete_item in the source container; it
\* raises when the document is no longer there or the store refuses.
transfer_document_delete(s, ok) ==
    LET r == Calling(reqs[s], {reqs[s].container})
    IN  /\ At(s, "transfer_document", "delete")
        /\ IF ok /\ Exists(r.container) /\ r.id \in Ids(cosmos[r.container])
           THEN /\ Write(r.container, delete_item(cosmos[r.container], r.id))
                /\ Step(s, [r EXCEPT !.pc = "invalidate_source",
                                     !.changed = @ \cup {r.container}], store)
           ELSE /\ Step(s, Finish(r, 500, <<>>), store)
                /\ UNCHANGED <<cosmos, history>>
        /\ UNCHANGED <<next_id, started>>

\* transfer_document, line 480.
transfer_document_invalidate_source(s) ==
    LET r == reqs[s]
    IN  /\ At(s, "transfer_document", "invalidate_source")
        /\ InvalidateStep(s, r.container, [r EXCEPT !.pc = "invalidate_target"])
        /\ UNCHANGED <<cosmos, history, next_id, started>>

\* transfer_document, lines 481-484.
transfer_document_invalidate_target(s) ==
    LET r == reqs[s]
    IN  /\ At(s, "transfer_document", "invalidate_target")
        /\ InvalidateStep(s, r.target, Finish(r, 200, <<r.doc>>))
        /\ UNCHANGED <<cosmos, history, next_id, started>>

\* Against an unreachable store every setex of a warm-up fails.
CacheFs == IF redis_url = "unreachable" THEN 0..WARM_PAGES ELSE {}

\* warm_cache, lines 577-597: validate, cap the limit, query the newest
\* documents.
warm_cache_query(s, c, limit0, ok) ==
    IF ~validate_container_name(c) THEN Rejected(s, "warm_cache", c, <<>>)
    ELSE
    LET limit == IF limit0 > 2000 THEN 2000 ELSE limit0
        r == [Begin("warm_cache", c) EXCEPT !.limit = limit, !.calls = {c}]
    IN  /\ Enter(s, IF ok /\ Exists(c)
                    THEN [r EXCEPT !.pc = "warm", !.items = QueryAll(cosmos[c], limit)]
                    ELSE Finish(r, 500, <<>>), store)
        /\ UNCHANGED <<cosmos, history, next_id>>

\* warm_cache, lines 600-611: warm the cache with the items.
warm_cache_warm(s) ==
    LET r == Calling(reqs[s], {reqs[s].container})
        out == warm_cache_for_container(cache_enabled, store, r.container, r.items,
                                        CacheFs)
    IN  /\ At(s, "warm_cache", "warm")
        /\ Step(s, Finish(r, IF out.raised THEN 500 ELSE 200, <<>>), out.store)
        /\ UNCHANGED <<cosmos, history, next_id, started>>

\* invalidate_cache, lines 629-632.
invalidate_cache(s, c) ==
    IF ~validate_container_name(c) THEN Rejected(s, "invalidate_cache", c, <<>>)
    ELSE
    LET r == [Begin("invalidate_cache", c) EXCEPT !.calls = {c}, !.invalidated = {c}]
        out == invalidate_container_cache(cache_enabled, store, c, CacheF)
    IN  /\ Enter(s, Finish(r, 200, <<>>), out.store)
        /\ UNCHANGED <<cosmos, history, next_id>>

\* What the requests ask for.
FacadePages == {1}
FacadeLimits == {DEFAULT_LIMIT}
AllLimits == {1, 1000}
FacadeQueries == {S_Foo}
NewPrompts == {S_foo}
UpdatedPrompts == {S_bar}
WarmLimits == {1000}

NextFacade ==
    \/ \E s \in Slots, c \in RequestContainers, page \in FacadePages,
          limit \in FacadeLimits : get_documents_lookup(s, c, page, limit)
    \/ \E s \in Slots, ok \in BOOLEAN : get_documents_query(s, ok)
    \/ \E s \in Slots : get_documents_set(s)
    \/ \E s \in Slots, c \in RequestContainers, q \in FacadeQueries, field \in Fields :
           search_documents_lookup(s, c, q, field)
    \/ \E s \in Slots, ok \in BOOLEAN : search_documents_query(s, ok)
    \/ \E s \in Slots : search_documents_set(s)
    \/ \E s \in Slots, c \in RequestContainers, limit \in AllLimits :
           get_all_documents_lookup(s, c, limit)
    \/ \E s \in Slots, ok \in BOOLEAN : get_all_documents_query(s, ok)
    \/ \E s \in Slots : get_all_documents_set(s)
    \/ \E s \in Slots, c \in RequestContainers, prompt \in NewPrompts, ok \in BOOLEAN :
           create_document_embed(s, c, prompt, ok)
    \/ \E s \in Slots, ok \in BOOLEAN : create_document_write(s, ok)
    \/ \E s \in Slots : create_document_invalidate(s)
    \/ \E s \in Slots, c \in RequestContainers, prompt \in UpdatedPrompts,
          ok \in BOOLEAN :
           \E doc_id \in RequestIds(c) : update_document_embed(s, c, doc_id, prompt, ok)
    \/ \E s \in Slots, ok \in BOOLEAN : update_document_write(s, ok)
    \/ \E s \in Slots : update_document_invalidate(s)
    \/ \E s \in Slots, c \in RequestContainers, ok \in BOOLEAN :
           \E doc_id \in RequestIds(c) : delete_document_delete(s, c, doc_id, ok)
    \/ \E s \in Slots, outcome \in SearchOutcomes : delete_document_search(s, outcome)
    \/ \E s \in Slots : delete_document_invalidate(s)
    \/ \E s \in Slots, source \in RequestContainers, ok \in BOOLEAN :
           \E target \in RequestContainers \ {source}, doc_id \in RequestIds(source) :
               transfer_document_read(s, source, target, doc_id, ok)
    \/ \E s \in Slots, ok \in BOOLEAN : transfer_document_embed(s, ok)
    \/ \E s \in Slots, ok \in BOOLEAN : transfer_document_create(s, ok)
    \/ \E s \in Slots, ok \in BOOLEAN : transfer_document_delete(s, ok)
    \/ \E s \in Slots : transfer_document_invalidate_source(s)
    \/ \E s \in Slots : transfer_document_invalidate_target(s)
    \/ \E s \in Slots, c \in RequestContainers, limit \in WarmLimits, ok \in BOOLEAN :
           warm_cache_query(s, c, limit, ok)
    \/ \E s \in Slots : warm_cache_warm(s)
    \/ \E s \in Slots, c \in RequestContainers : invalidate_cache(s, c)
    \/ Tick

SpecFacade == Init /\ [][NextFacade]_vars

\* C7: a create, update, delete or transfer request that is done has called
\* invalidate_container_cache for every container whose documents it changed,
\* whatever step of it failed; for a transfer, the source and the target.
C7_MutationInvalidatesChangedContainers ==
    \A s \in Slots :
        reqs[s].pc = "done" => reqs[s].changed \subseteq reqs[s].invalidated

\* What the document store answers to the read r when container holds docs.
StoreResult(r, docs) ==
    CASE r.kind = "get_documents" -> QueryPage(docs, r.page, r.limit)
      [] r.kind = "search_documents" -> QuerySearch(docs, r.field, r.q)
      [] r.kind = "get_all_documents" -> QueryAll(docs, r.limit)

\* C8: whatever the interleaving of reads and mutations, a read answered from
\* the cache gets what the document store answers to that request now or
\* answered to it at some earlier time, and no cache entry is there once the
\* ttl of its kind has passed since it was written.
C8_HitReturnsCurrentOrEarlierResult ==
    /\ \A s \in Slots :
           (reqs[s].pc = "done" /\ reqs[s].hit) =>
               \E docs \in history[reqs[s].container] :
                   reqs[s].resp = StoreResult(reqs[s], docs)
    /\ \A c \in FacadeContainers :
           /\ \A page \in FacadePages, limit \in FacadeLimits :
                  PageKey(c, page, limit) \in DOMAIN store
                      => store[PageKey(c, page, limit)].age < 300
           /\ AllKey(c) \in DOMAIN store => store[AllKey(c)].age < 600
           /\ \A q \in FacadeQueries, field \in Fields :
                  SearchKey(c, q, field) \in DOMAIN store
                      => store[SearchKey(c, q, field)].age < 180

(***************************************************************************)
(* Statistics: get_cache_stats after warm-ups of two containers            *)
(***************************************************************************)

StatsContainers == {S_mlb, S_nba_official}
StatsSizes == {1, 19, 60}

\* A warm-up against a reachable store succeeds in every setex, against an
\* unreachable one fails in every setex.
WarmFailsNone(d) ==
    IF redis_url = "unreachable"
    THEN {0..Min(WARM_PAGES, (Min(Len(d), max_cache_size) + page_size - 1) \div page_size)}
    ELSE {{}}

\* REDIS_URL may ask the client to decode the store's answers (str keys) or
\* not (bytes keys, the default).
InitStats ==
    /\ redis_url \in {"unset", "reachable", "unreachable"}
    /\ decode_responses \in BOOLEAN
    /\ cache_enabled = InitEnabled(redis_url)
    /\ store = <<>>
    /\ op = NoCall
    /\ ret = None
    /\ raised = FALSE
    /\ clean = {}
    /\ InitFacade

NextStats ==
    \/ \E c \in StatsContainers, n \in StatsSizes :
           \E fs \in WarmFailsNone(Records(n)) : Warm(c, Records(n), fs)
    \/ \E f \in Fails(2) : Stats(f)
    \/ \E f \in Fails(2) : InvalidateAll(f)

SpecStats == InitStats /\ [][NextStats]_vars

\* The store after "mlb" was warmed with n records and "nba-official" with m,
\* starting from an empty cache.
WarmedFromEmpty(n, m) ==
    warm_cache_for_container(TRUE,
        warm_cache_for_container(TRUE, <<>>, S_mlb, Records(n), {}).store,
        S_nba_official, Records(m), {}).store

\* C11: get_cache_stats on a cache that was empty and then warmed with at
\* least 60 records for "mlb" and 1 to 19 records for "nba-official" reports
\* cache_keys_by_container = {mlb: 4, nba-official: 1}.
C11_StatsCountsAfterWarming ==
    (/\ cache_enabled /\ redis_url = "reachable"
     /\ op.name = "get_cache_stats" /\ op.fails = {}
     /\ \E n \in StatsSizes, m \in StatsSizes :
            n >= 60 /\ m >= 1 /\ m <= 19 /\ store = WarmedFromEmpty(n, m))
        => ret.cache_keys_by_container = (S_mlb :> 4 @@ S_nba_official :> 1)

(***************************************************************************)
(* Round trips: what a get finds after a set                               *)
(***************************************************************************)

RoundContainers == {S_nba_official, S_mlb}
RoundPages == {1}
RoundLimits == {DEFAULT_LIMIT, 10}
\* Twenty records, and two records in the other order.
RoundData == {Records(20), <<IntStr(2), IntStr(1)>>}

NextRound ==
    \/ \E c \in RoundContainers, p \in RoundPages, l \in RoundLimits, f \in Fails(1) :
           GetPage(c, p, l, f)
    \/ \E c \in RoundContainers, p \in RoundPages, l \in RoundLimits, d \in RoundData,
          f \in Fails(1) :
           SetPage(c, p, d, l, f)
    \/ \E c \in RoundContainers, f \in Fails(1) : GetAll(c, f)
    \/ \E c \in RoundContainers, d \in RoundData, f \in Fails(1) : SetAll(c, d, f)

SpecRound == Init /\ [][NextRound]_vars

\* C12: on an enabled cache, right after set_page_cache(c, page, r, limit)
\* with non-empty r whose store call succeeded, get_page_cache(c, page, limit)
\* returns r, the same records in the same order; likewise get_all_cache(c)
\* right after set_all_cache(c, r).
C12_SetThenGetReturnsTheRecords ==
    [][(cache_enabled /\ op'.fails = {} /\ op'.len > 0
            /\ op'.name \in {"set_page_cache", "set_all_cache"}) =>
          \A c \in RoundContainers, r \in RoundData :
              /\ \A page \in RoundPages, limit \in RoundLimits :
                     SetPage(c, page, r, limit, 0) =>
                         /\ get_page_cache(cache_enabled, store', c, page, limit, 0).ret
                                = <<r>>
                         /\ ~get_page_cache(cache_enabled, store', c, page, limit, 0).raised
              /\ SetAll(c, r, 0) =>
                     /\ get_all_cache(cache_enabled, store', c, 0).ret = <<r>>
                     /\ ~get_all_cache(cache_enabled, store', c, 0).raised]_vars

\* get_page_cache("nba-official", 1, 20) has just returned the twenty records
\* that were set, while the page with limit 10 holds other records.
C12_Witness ==
    /\ op.name = "get_page_cache" /\ op.container = S_nba_official /\ op.fails = {}
    /\ ret = <<Records(20)>>
    /\ PageKey(S_nba_official, 1, 10) \in DOMAIN store
    /\ Loads(store[PageKey(S_nba_official, 1, 10)].val) = <<IntStr(2), IntStr(1)>>
    /\ Loads(store[PageKey(S_nba_official, 1, 20)].val) = Records(20)

(***************************************************************************)
(* Search entries: queries, fields and containers that differ in case      *)
(***************************************************************************)

S_MLB == <<"M","L","B">>
SearchContainers == {S_mlb, S_MLB}
\* "Query" and "query" differ in case only.
SearchFields == {S_Query, S_query}

NextSearch ==
    \/ \E c \in SearchContainers, q \in Queries, fld \in SearchFields, f \in Fails(1) :
           GetSearch(c, q, fld, f)
    \/ \E c \in SearchContainers, q \in Queries, fld \in SearchFields, d \in Data,
          f \in Fails(1) :
           SetSearch(c, q, fld, d, f)

SpecSearch == Init /\ [][NextSearch]_vars

\* a and b are the same but for the case of their letters.
DifferOnlyInCase(a, b) ==
    /\ Len(a) = Len(b)
    /\ \A i \in 1..Len(a) : LowerChar(a[i]) = LowerChar(b[i])

\* C13: right after a successful set_search_cache(c, q1, f, r) on an enabled
\* cache, get_search_cache(c, q2, f) returns r for every q2 that differs from
\* q1 in letter case only, both building one key; a get with another
\* container or field, even one differing in case only, finds what it found
\* before the set.
C13_SearchKeyIgnoresQueryCaseOnly ==
    [][(cache_enabled /\ op'.fails = {} /\ op'.name = "set_search_cache") =>
          \A c \in SearchContainers, q1 \in Queries, f \in SearchFields, r \in Data :
              SetSearch(c, q1, f, r, 0) =>
                  \A q2 \in Queries :
                      /\ DifferOnlyInCase(q1, q2) =>
                             /\ SearchKey(c, q1, f) = SearchKey(c, q2, f)
                             /\ get_search_cache(cache_enabled, store', c, q2, f, 0).ret
                                    = <<r>>
                      /\ \A c2 \in SearchContainers, f2 \in SearchFields :
                             (c2 # c \/ f2 # f) =>
                                 /\ SearchKey(c2, q2, f2) # SearchKey(c, q1, f)
                                 /\ get_search_cache(cache_enabled, store', c2, q2, f2, 0).ret
                                        = get_search_cache(cache_enabled, store, c2, q2, f2, 0).ret]_vars

\* A search get on "mlb" and field "Query" has just returned the record that
\* was set, while "MLB" and field "query" have no entry.
C13_Witness ==
    /\ op.name = "get_search_cache" /\ op.container = S_mlb /\ op.fails = {}
    /\ ret = <<Records(1)>>
    /\ DOMAIN store = {SearchKey(S_mlb, S_Foo, S_Query)}
    /\ SearchKey(S_mlb, S_Foo, S_Query) = SearchKey(S_mlb, S_foo, S_Query)

(***************************************************************************)
(* The key builder alone: _get_key on arguments supplied in either order   *)
(***************************************************************************)

KeyContainers == {S_mlb, S_mlb_unofficial, S_nba_official}
KeyPages == {1, 2, 10}
KeyLimits == {DEFAULT_LIMIT, 5, 100}

\* A pair of keyword arguments, in both orders of supply.
BothOrders(a, b) == {<<a, b>>, <<b, a>>}

KeyArguments(key_type) ==
    IF key_type = S_page
    THEN UNION {BothOrders(<<S_page, IntStr(p)>>, <<S_limit, IntStr(l)>>) :
                    p \in KeyPages, l \in KeyLimits}
    ELSE IF key_type = S_search
    THEN UNION {BothOrders(<<S_query, q>>, <<S_field, fld>>) :
                    q \in {S_foo, S_bar}, fld \in {S_UserPrompt, S_Query}}
    ELSE {<<>>}

\* self._get_key(key_type, container, **kwargs)
BuildKey(key_type, container, kwargs) ==
    /\ op' = [name |-> "_get_key", key_type |-> key_type, container |-> container,
              kwargs |-> kwargs]
    /\ ret' = _get_key(key_type, container, kwargs)
    /\ raised' = FALSE
    /\ UNCHANGED <<cache_vars, clean, facade_vars>>

NextKey ==
    \E key_type \in {S_page, S_all, S_search}, container \in KeyContainers :
        \E kwargs \in KeyArguments(key_type) : BuildKey(key_type, container, kwargs)

SpecKey == Init /\ [][NextKey]_vars

\* The value supplied for the parameter called name.
Supplied(kwargs, name) ==
    kwargs[CHOOSE i \in 1..Len(kwargs) : kwargs[i][1] = name][2]

\* C14: the key built for a kind, a container and parameters is
\* feedback_docs:<container>:<kind> followed by :<name>=<value> for each
\* parameter by ascending name (limit before page, field before query), the
\* same key whichever order the parameters were supplied in; a page get or
\* set without a limit builds its key with limit=20.
C14_KeyFormatAndOrder ==
    /\ op.name = "_get_key" =>
           LET base == <<"f","e","e","d","b","a","c","k","_","d","o","c","s",":">>
                           \o op.container \o <<":">>
               kw == op.kwargs
           IN  /\ op.key_type = S_page =>
                      ret = base \o <<"p","a","g","e",":","l","i","m","i","t","=">>
                                 \o Supplied(kw, S_limit)
                                 \o <<":","p","a","g","e","=">> \o Supplied(kw, S_page)
               /\ op.key_type = S_all => ret = base \o <<"a","l","l">>
               /\ op.key_type = S_search =>
                      ret = base \o <<"s","e","a","r","c","h",":","f","i","e","l","d","=">>
                                 \o Supplied(kw, S_field)
                                 \o <<":","q","u","e","r","y","=">> \o Supplied(kw, S_query)
               /\ Len(kw) = 2 => ret = _get_key(op.key_type, op.container,
                                                <<kw[2], kw[1]>>)
    /\ \A c \in KeyContainers, p \in KeyPages :
           PageKey(c, p, DEFAULT_LIMIT)
               = <<"f","e","e","d","b","a","c","k","_","d","o","c","s",":">> \o c
                     \o <<":","p","a","g","e",":","l","i","m","i","t","=","2","0",
                          ":","p","a","g","e","=">> \o IntStr(p)

\* The key of page 2 with limit 5 of "mlb" has been built from the page
\* supplied first and the limit second.
C14_Witness ==
    /\ op.name = "_get_key" /\ op.key_type = S_page /\ op.container = S_mlb
    /\ op.kwargs = << <<S_page, <<"2">>>>, <<S_limit, <<"5">>>> >>
    /\ ret = <<"f","e","e","d","b","a","c","k","_","d","o","c","s",":","m","l","b",
               ":","p","a","g","e",":","l","i","m","i","t","=","5",
               ":","p","a","g","e","=","2">>

\* C15: cache_enabled is what the construction of the CacheService made it,
\* whatever calls have been made since and whether they failed: a disabled
\* cache is never enabled and an enabled one never disabled.
C15_EnabledFixedAtConstruction ==
    [][cache_enabled' = cache_enabled]_vars

\* A set against an unreachable store has just failed and the cache is still
\* enabled.
C15_Witness ==
    /\ redis_url = "unreachable" /\ cache_enabled
    /\ op.name = "set_page_cache" /\ op.len > 0 /\ op.fails # {} /\ ~raised

\* C16: on a disabled cache get_cache_stats returns exactly {enabled: False},
\* and no get, set, invalidation, warm-up or stats call gets as far as calling
\* the store: the store stays as it was and nothing is raised.
C16_DisabledCacheNeverCallsStore ==
    ~cache_enabled =>
        /\ ~op.called
        /\ store = <<>>
        /\ ~raised
        /\ op.name = "get_cache_stats" => ret = [enabled |-> FALSE]
        /\ op.name \in Gets => ret = None

\* get_cache_stats has just answered on a disabled cache.
C16_Witness ==
    /\ ~cache_enabled /\ redis_url = "unset"
    /\ op.name = "get_cache_stats" /\ ~op.called
    /\ ret = [enabled |-> FALSE]

(***************************************************************************)
(* The facade's validation of container names                              *)
(***************************************************************************)

\* The container names a request came with.
Names(r) == {r.container} \cup (IF r.target = <<>> THEN {} ELSE {r.target})

\* C17: no request hands a name outside ALLOWED_CONTAINERS to a cache or
\* document store operation: a request of any handler that comes with such a
\* name (as either container of a transfer too) is answered 400 having made
\* no call, changed no document and invalidated nothing, and the cache holds
\* no key of such a name.
C17_UnknownContainerRejectedBeforeAnyCall ==
    /\ \A s \in Slots :
           /\ reqs[s].calls \subseteq ALLOWED_CONTAINERS
           /\ (reqs[s].kind # "idle" /\ ~(Names(reqs[s]) \subseteq ALLOWED_CONTAINERS))
                  => /\ reqs[s].pc = "done" /\ reqs[s].status = 400
                     /\ reqs[s].calls = {} /\ reqs[s].changed = {}
                     /\ reqs[s].invalidated = {} /\ ~reqs[s].hit
    /\ \A c \in UnknownContainers : RedisKeys(store, ContainerPattern(c)) = {}

\* While a transfer between allowed containers is in flight, having called
\* the document store for both, a cache invalidation for a name that is not
\* allowed has been rejected.
C17_Witness ==
    /\ reqs[1].kind = "transfer_document" /\ reqs[1].pc = "create"
    /\ reqs[1].calls = {S_nba_unofficial, S_nba_official}
    /\ reqs[2].kind = "invalidate_cache" /\ reqs[2].container = S_NBA_official
    /\ reqs[2].status = 400 /\ reqs[2].calls = {}

(***************************************************************************)
(* Embeddings and the search index                                         *)
(***************************************************************************)

\* C18: a create, update or transfer request for which the embedding
\* generation failed (get_embedding returned None) creates, upserts and
\* deletes no document: it changes no container.
C18_EmbeddingFailureAbortsWrite ==
    \A s \in Slots : reqs[s].embedding = "failed" => reqs[s].changed = {}

\* C19: a delete_document request reaches the search index only for the
\* container "nba-official" and only after the document store deleted the
\* document; and whatever the search index did (not configured, deleted,
\* failed), a request whose document store deletion succeeded ends with the
\* container's cache invalidated and the answer 200.
C19_SearchIndexFailureIsNotFatal ==
    \A s \in Slots :
        reqs[s].kind = "delete_document" =>
            /\ reqs[s].search # "none" =>
                   /\ reqs[s].container = S_nba_official
                   /\ reqs[s].changed = {S_nba_official}
            /\ (reqs[s].pc = "done" /\ reqs[s].changed # {}) =>
                   /\ reqs[s].status = 200
                   /\ reqs[s].invalidated = {reqs[s].container}

\* A deletion from "nba-official" whose search index deletion failed has
\* been answered 200 after the invalidation.
C19_Witness ==
    /\ reqs[1].kind = "delete_document" /\ reqs[1].container = S_nba_official
    /\ reqs[1].search = "failed" /\ reqs[1].pc = "done" /\ reqs[1].status = 200
    /\ reqs[1].invalidated = {S_nba_official}
    /\ cosmos[S_nba_official] = <<>>

(***************************************************************************)
(* Idempotence of invalidate_container_cache                               *)
(***************************************************************************)

\* C20: invalidate_container_cache never raises; called for a container with
\* no cached entries it leaves the store as it was; and after a call that
\* carried out its deletion, a second call for the same container, whether
\* its store calls succeed or fail, raises nothing and leaves the store as
\* the first call left it.
C20_InvalidateContainerIdempotent ==
    [][op'.name = "invalidate_container_cache" =>
           /\ ~raised'
           /\ op'.n = 0 => store' = store
           /\ op'.fails = {} =>
                  \A f \in 0..2 :
                      LET again == invalidate_container_cache(cache_enabled, store',
                                                              op'.container, f)
                      IN  ~again.raised /\ again.store = store'
      ]_vars

\* invalidate_container_cache has just been called, on a reachable store
\* holding entries of another container, for a container with no entries.
C20_Witness ==
    /\ cache_enabled /\ redis_url = "reachable"
    /\ op.name = "invalidate_container_cache" /\ op.fails = {} /\ op.called
    /\ op.n = 0 /\ ~raised
    /\ store # <<>>

(***************************************************************************)
(* Order of mutation and invalidation in the facade                        *)
(***************************************************************************)

Mutations ==
    {"create_document", "update_document", "delete_document", "transfer_document"}

\* C21: a create, update, delete or transfer request has called
\* invalidate_container_cache only if every document store mutation it makes
\* (one, or the create and the delete of a transfer) has succeeded, and a
\* request that ended in an error has invalidated nothing.
C21_InvalidationOnlyAfterSuccessfulMutation ==
    \A s \in Slots :
        reqs[s].kind \in Mutations =>
            /\ reqs[s].invalidated # {} =>
                   /\ reqs[s].changed =
                          (IF reqs[s].kind = "transfer_document"
                           THEN reqs[s].calls ELSE {reqs[s].container})
                   /\ reqs[s].invalidated \subseteq reqs[s].changed
                   /\ reqs[s].status \in {0, 200}
            /\ (reqs[s].pc = "done" /\ reqs[s].status # 200) =>
                   reqs[s].invalidated = {}

\* With entries in the cache, a create request whose create_item was refused
\* has ended in an error without invalidating.
C21_Witness ==
    /\ cache_enabled /\ store # <<>>
    /\ reqs[1].kind = "create_document" /\ reqs[1].pc = "done"
    /\ reqs[1].status = 500 /\ reqs[1].embedding # "failed"
    /\ reqs[1].changed = {} /\ reqs[1].invalidated = {}

(***************************************************************************)
(* Failed store calls: what they leave in the cache                        *)
(***************************************************************************)

\* Record lists of different lengths, the empty one among them.
FailData == {Records(0), Records(1), Records(2)}

NextFail ==
    \/ \E c \in Containers, p \in Pages, l \in Limits, d \in FailData, f \in Fails(1) :
           SetPage(c, p, d, l, f)
    \/ \E c \in Containers, d \in FailData, f \in Fails(1) : SetAll(c, d, f)
    \/ \E c \in Containers, q \in Queries, fld \in Fields, d \in FailData,
          f \in Fails(1) :
           SetSearch(c, q, fld, d, f)
    \/ \E c \in Containers, f \in Fails(2) : Invalidate(c, f)
    \/ \E f \in Fails(2) : InvalidateAll(f)
    \/ \E c \in Containers, d \in FailData : \E fs \in WarmFails(d) : Warm(c, d, fs)

SpecFail == Init /\ [][NextFail]_vars

Sets == {"set_page_cache", "set_all_cache", "set_search_cache"}
Invalidations == {"invalidate_container_cache", "invalidate_all_cache"}

\* The text under every key of st is the json text of one of the record lists.
WellFormed(st) ==
    \A k \in DOMAIN st : \E d \in FailData : st[k].val = Dumps(d)

\* The call call, handed Records(call.len), is a set for key k (on its own or
\* as part of a warm-up) whose setex did not fail, and text is the json text
\* of the records it was handed for that key.
SetFor(call, k, text) ==
    LET data == Records(call.len)
        c == call.container
    IN  \/ /\ call.name = "set_page_cache" /\ call.fails = {}
           /\ \E p \in Pages, l \in Limits : k = PageKey(c, p, l)
           /\ text = Dumps(data)
        \/ /\ call.name = "set_all_cache" /\ call.fails = {}
           /\ k = AllKey(c)
           /\ text = Dumps(data)
        \/ /\ call.name = "set_search_cache" /\ call.fails = {}
           /\ \E q \in Queries, fld \in Fields : k = SearchKey(c, q, fld)
           /\ text = Dumps(data)
        \/ /\ call.name = "warm_cache_for_container"
           /\ \/ /\ 0 \notin call.fails
                 /\ k = AllKey(c)
                 /\ text = Dumps(Slice(data, 0, max_cache_size))
              \/ \E p \in 1..WARM_PAGES :
                     /\ p \notin call.fails
                     /\ k = PageKey(c, p, page_size)
                     /\ text = Dumps(Slice(data, (p - 1) * page_size, p * page_size))

\* C22: the text under every key is the whole json text of a record list;
\* an entry is there after a call only if it was there before, unchanged, or
\* the call is a set for that key whose store call succeeded and the entry
\* holds the records that set was handed; and a set or an invalidation whose
\* store call failed leaves the store as it was.
C22_FailedWriteNeverCorrupts ==
    /\ []WellFormed(store)
    /\ [][/\ \A k \in DOMAIN store' :
                 \/ k \in DOMAIN store /\ store'[k] = store[k]
                 \/ SetFor(op', k, store'[k].val)
          /\ (op'.name \in Sets \cup Invalidations /\ op'.fails # {})
                 => store' = store
       ]_vars

\* A set of two records for a page has just failed on a reachable store, and
\* the page still holds the one record set before.
C22_Witness ==
    /\ cache_enabled /\ redis_url = "reachable" /\ ~raised
    /\ op.name = "set_page_cache" /\ op.fails = {1} /\ op.len = 2
    /\ PageKey(op.container, 1, DEFAULT_LIMIT) \in DOMAIN store
    /\ Loads(store[PageKey(op.container, 1, DEFAULT_LIMIT)].val) = Records(1)

(***************************************************************************)
(* The read handlers and the warm-cache command, with no mutation of the   *)
(* documents: one container holds more documents than the "all" slot does  *)
(***************************************************************************)

LargeSize == 1001
ReadDocuments ==
    [c \in FacadeContainers |->
        IF c = S_nba_official
        THEN [i \in 1..LargeSize |-> Doc(IntStr(LargeSize + 1 - i), S_bar)]
        ELSE InitialDocuments[c]]

InitRead ==
    /\ InitCache
    /\ cosmos = ReadDocuments
    /\ next_id = 0
    /\ reqs = [s \in Slots |-> Idle]
    /\ started = 0
    /\ history = [c \in FacadeContainers |-> {ReadDocuments[c]}]

\* Limits below, at and above what get_all_documents looks up in the cache
\* for (1000) and above its cap (5000); limits at and above the cap of
\* warm_cache (2000); the limit 0, for which the store returns no records.
ReadAllLimits == {0, 1, 1000, 1001, 6000}
ReadWarmLimits == {0, 1, 1000, 2000, 3000}
SearchedContainers == {S_nba_unofficial}

NextRead ==
    \/ \E s \in Slots, c \in FacadeContainers, page \in FacadePages,
          limit \in FacadeLimits : get_documents_lookup(s, c, page, limit)
    \/ \E s \in Slots, ok \in BOOLEAN : get_documents_query(s, ok)
    \/ \E s \in Slots : get_documents_set(s)
    \/ \E s \in Slots, c \in SearchedContainers, q \in FacadeQueries, field \in Fields :
           search_documents_lookup(s, c, q, field)
    \/ \E s \in Slots, ok \in BOOLEAN : search_documents_query(s, ok)
    \/ \E s \in Slots : search_documents_set(s)
    \/ \E s \in Slots, c \in FacadeContainers, limit \in ReadAllLimits :
           get_all_documents_lookup(s, c, limit)
    \/ \E s \in Slots, ok \in BOOLEAN : get_all_documents_query(s, ok)
    \/ \E s \in Slots : get_all_documents_set(s)
    \/ \E s \in Slots, c \in FacadeContainers, limit \in ReadWarmLimits, ok \in BOOLEAN :
           warm_cache_query(s, c, limit, ok)
    \/ \E s \in Slots : warm_cache_warm(s)

SpecRead == InitRead /\ [][NextRead]_vars

Reads == {"get_documents", "search_documents", "get_all_documents"}

\* The cache entry a read request is about.
LookupKey(r) ==
    CASE r.kind = "get_documents" -> PageKey(r.container, r.page, r.limit)
      [] r.kind = "search_documents" -> SearchKey(r.container, r.q, r.field)
      [] r.kind = "get_all_documents" -> AllKey(r.container)

\* What the cache holds for read request r in store st: the records, or
\* <<>> when the lookup of the entry is a miss.
Cached(r, st) ==
    LET out == CASE r.kind = "get_documents" ->
                        get_page_cache(cache_enabled, st, r.container, r.page,
                                       r.limit, CacheF)
                 [] r.kind = "search_documents" ->
                        get_search_cache(cache_enabled, st, r.container, r.q,
                                         r.field, CacheF)
                 [] r.kind = "get_all_documents" ->
                        get_all_cache(cache_enabled, st, r.container, CacheF)
    IN  IF Hit(out) THEN out.ret[1] ELSE <<>>

\* The step takes a read request into slot s, with an allowed container and,
\* for a search, an allowed field.
Entered(s) ==
    /\ started' = started + 1
    /\ reqs'[s] # reqs[s]
    /\ reqs'[s].kind \in Reads
    /\ validate_container_name(reqs'[s].container)
    /\ reqs'[s].kind = "search_documents" => reqs'[s].field \in {S_UserPrompt, S_Query}

\* C23: a read request for whose key the cache holds at least one record is
\* answered at once with the cached records (for get_all_documents the
\* first limit of them) and never gets to the document store query; any
\* other read request goes on to the query, and what it then writes to the
\* cache is the records it answers with, under the key of its lookup.
C23_ReadsConsultCacheFirst ==
    [][\A s \in Slots :
           /\ Entered(s) =>
                  IF Cached(reqs'[s], store) # <<>>
                  THEN /\ reqs'[s].pc = "done" /\ reqs'[s].status = 200
                       /\ reqs'[s].hit
                       /\ reqs'[s].resp =
                              IF reqs'[s].kind = "get_all_documents"
                              THEN Slice(Cached(reqs'[s], store), 0, reqs'[s].limit)
                              ELSE Cached(reqs'[s], store)
                  ELSE reqs'[s].pc = "query" /\ ~reqs'[s].hit
           /\ (reqs[s].kind \in Reads /\ reqs[s].pc = "set" /\ reqs'[s].pc = "done") =>
                  \A k \in DOMAIN store' :
                      (k \notin DOMAIN store \/ store'[k] # store[k]) =>
                          /\ k = LookupKey(reqs[s])
                          /\ Loads(store'[k].val) = reqs'[s].resp
      ]_vars

\* C24: while the documents of a container do not change, a get_all_documents
\* request with limit L that is answered, from the "all" entry or from the
\* document store, whatever reads and warm-ups came before, returns what the
\* document store answers to limit L.
C24_AllFromCacheEqualsAllFromStore ==
    \A s \in Slots :
        (reqs[s].kind = "get_all_documents" /\ reqs[s].pc = "done"
         /\ reqs[s].status = 200)
            => reqs[s].resp = QueryAll(cosmos[reqs[s].container], reqs[s].limit)

(***************************************************************************)
(* Transfers                                                               *)
(***************************************************************************)

\* C25: a transfer request that has finished has either succeeded, having
\* created the copy in the target and deleted the original from the source,
\* or ended in an error having changed the documents of neither container;
\* so the document is never left in both.
C25_FailedTransferChangesNothing ==
    \A s \in Slots :
        (reqs[s].kind = "transfer_document" /\ reqs[s].pc = "done") =>
            IF reqs[s].status = 200
            THEN reqs[s].changed = reqs[s].calls
            ELSE reqs[s].changed = {}

\* C26: a request that has removed a document from "nba-official", by
\* delete or by transfer out of it, has consulted the search service in the
\* same request: the index deletion was attempted, or skipped only because
\* the service is not configured.
C26_RemovalFromOfficialReachesSearchIndex ==
    \A s \in Slots :
        (/\ reqs[s].kind \in {"delete_document", "transfer_document"}
         /\ reqs[s].container = S_nba_official
         /\ S_nba_official \in reqs[s].changed
         /\ reqs[s].pc = "done") =>
            reqs[s].search \in SearchOutcomes

(***************************************************************************)
(* Size of the "all" entries                                               *)
(***************************************************************************)

\* C27: in every state reached through the read handlers and warm_cache,
\* each "all" entry of the cache holds at least 1 and at most 1000 records.
C27_AllEntryHoldsOneToThousand ==
    \A c \in FacadeContainers :
        AllKey(c) \in DOMAIN store =>
            /\ Len(Loads(store[AllKey(c)].val)) >= 1
            /\ Len(Loads(store[AllKey(c)].val)) <= max_cache_size

\* warm_cache has stored the 1000 newest of the 1001 documents of
\* "nba-official", while get_all_documents with limit 0 on "nba-unofficial"
\* has been answered with no records and has stored nothing.
C27_Witness ==
    /\ AllKey(S_nba_official) \in DOMAIN store
    /\ Len(Loads(store[AllKey(S_nba_official)].val)) = max_cache_size
    /\ AllKey(S_nba_unofficial) \notin DOMAIN store
    /\ \E s \in Slots :
           /\ reqs[s].kind = "get_all_documents"
           /\ reqs[s].container = S_nba_unofficial
           /\ reqs[s].limit = 0
           /\ reqs[s].pc = "done"
           /\ reqs[s].status = 200
           /\ ~reqs[s].hit

(***************************************************************************)
(* What a warm-up leaves alone                                             *)
(***************************************************************************)

\* Warm-ups of one container with no records and with 61 (four pages of 20),
\* among entries a warm-up has no business with: a page above the third, a
\* page with another limit, a search, entries of another container.
FrameSizes == {0, 61}
FramePages == {<<WARM_PAGES + 1, page_size>>, <<1, 10>>}

NextFrame ==
    \/ \E c \in WarmContainers, n \in FrameSizes :
           \E fs \in WarmFailsOne(Records(n)) : Warm(c, Records(n), fs)
    \/ \E c \in WarmContainers, pl \in FramePages, f \in Fails(1) :
           SetPage(c, pl[1], Records(2), pl[2], f)
    \/ \E c \in WarmContainers, f \in Fails(1) :
           SetSearch(c, S_foo, S_UserPrompt, Records(2), f)
    \/ \E c \in Containers, f \in Fails(1) : SetAll(c, Records(2), f)

SpecFrame == Init /\ [][NextFrame]_vars

\* C28: warm_cache_for_container(c, documents) changes no entry but the
\* "all" entry of c and the pages 1, 2 and 3 of c with limit 20, whether its
\* store calls succeed or fail; with an empty document list it changes no
\* entry at all.
C28_WarmWritesOnlyAllAndThreePages ==
    [][op'.name = "warm_cache_for_container" =>
          LET c == op'.container
              warmed == {AllKey(c)} \cup {PageKey(c, p, page_size) : p \in 1..WARM_PAGES}
          IN  /\ \A k \in (DOMAIN store \cup DOMAIN store') \ warmed :
                     /\ k \in DOMAIN store
                     /\ k \in DOMAIN store'
                     /\ store'[k] = store[k]
              /\ op'.len = 0 => store' = store]_vars

\* A warm-up with 61 records has replaced the "all" entry of "mlb" and
\* written its pages 1 to 3 beside a fourth page, a page with limit 10, a
\* search and the "all" entry of another container, all still there.
C28_Witness ==
    LET Holds(k, n) == k \in DOMAIN store /\ Loads(store[k].val) = Records(n)
    IN  /\ op.name = "warm_cache_for_container" /\ op.len = 61 /\ op.fails = {}
        /\ Holds(AllKey(S_mlb), 61)
        /\ Holds(PageKey(S_mlb, 1, page_size), 20)
        /\ PageKey(S_mlb, WARM_PAGES, page_size) \in DOMAIN store
        /\ Holds(PageKey(S_mlb, WARM_PAGES + 1, page_size), 2)
        /\ Holds(PageKey(S_mlb, 1, 10), 2)
        /\ Holds(SearchKey(S_mlb, S_foo, S_UserPrompt), 2)
        /\ Holds(AllKey(S_mlb_unofficial), 2)

(***************************************************************************)
(* One key per request                                                     *)
(***************************************************************************)

\* What the facade hands to the cache: any allowed container; pages and
\* limits whose digits run into one another; queries in either case, empty,
\* and with the ":" and "=" the key is put together with.
InjPages == {1, 2, 12}
InjLimits == {1, 12, DEFAULT_LIMIT}
S_foo_field_Query == S_foo \o <<":">> \o S_field \o <<"=">> \o S_Query
S_colon_page_1 == <<":">> \o S_page \o <<"=", "1">>
InjQueries == {<<>>, S_foo, S_Foo, S_bar, S_foo_field_Query, S_colon_page_1}
InjFields == {S_UserPrompt, S_Query}

\* The requests of a kind, with the parameters the kind has.
CacheRequests ==
    {[kind |-> S_page, container |-> c, page |-> p, limit |-> l] :
         c \in ALLOWED_CONTAINERS, p \in InjPages, l \in InjLimits}
    \cup {[kind |-> S_all, container |-> c] : c \in ALLOWED_CONTAINERS}
    \cup {[kind |-> S_search, container |-> c, field |-> fld, query |-> q] :
              c \in ALLOWED_CONTAINERS, fld \in InjFields, q \in InjQueries}

\* The key the get and the set of a kind build for a request.
KeyOf(r) ==
    IF r.kind = S_page THEN PageKey(r.container, r.page, r.limit)
    ELSE IF r.kind = S_all THEN AllKey(r.container)
    ELSE SearchKey(r.container, r.query, r.field)

\* A request with its query in lower case.
Folded(r) == IF r.kind = S_search THEN [r EXCEPT !.query = Lower(r.query)] ELSE r

\* A get or set builds the key of request r.
RequestKey(r) ==
    /\ op' = [name |-> "key", request |-> r]
    /\ ret' = KeyOf(r)
    /\ raised' = FALSE
    /\ UNCHANGED <<cache_vars, clean, facade_vars>>

NextInj == \E r \in CacheRequests : RequestKey(r)

SpecInj == Init /\ [][NextInj]_vars

\* C29: over allowed containers, the kinds page, all and search, positive
\* pages and limits, the fields UserPrompt and Query and any query, the key
\* built for a request is the key of no request that differs from it in
\* kind, container, page, limit, field or lower-cased query.
C29_KeyIsInjective ==
    op.name = "key" =>
        \A r \in CacheRequests :
            KeyOf(r) = ret => Folded(r) = Folded(op.request)

\* The key of a search whose query ends like a field parameter has been
\* built; the same query in the other field and the query without that
\* ending have other keys, the query in upper case the same.
C29_Witness ==
    /\ op.name = "key"
    /\ op.request = [kind |-> S_search, container |-> S_mlb,
                     field |-> S_UserPrompt, query |-> S_foo_field_Query]
    /\ ret # SearchKey(S_mlb, S_foo_field_Query, S_Query)
    /\ ret # SearchKey(S_mlb, S_foo, S_Query)
    /\ ret = SearchKey(S_mlb, S_Foo \o <<":">> \o S_field \o <<"=">> \o S_Query,
                       S_UserPrompt)

(***************************************************************************)
(* The search index service (azure_search_service.py)                      *)
(***************************************************************************)

\* What a call of the search client comes to.  get_document answers with the
\* document or with ResourceNotFoundError, by what the index holds, or raises
\* another error (the index is not reached, the request is refused, it times
\* out).  delete_documents removes the document and reports the item as
\* succeeded, reports it as failed, returns no item, or raises.
GetOutcomes == {"answers", "raises"}
DeleteOutcomes == {"succeeded", "failed", "no_item", "raises"}

\* AzureSearchService.is_configured
is_configured(_client) == _client

\* AzureSearchService.verify_document_exists
verify_document_exists(_client, index, doc_id, get) ==
    IF ~_client THEN FALSE
    ELSE IF get = "raises" THEN FALSE
    ELSE doc_id \in index

\* AzureSearchService.delete_document: what it returns and the index it
\* leaves.
delete_document(_client, index, doc_id, get, delete) ==
    IF ~_client THEN [value |-> FALSE, index |-> index]
    ELSE IF ~verify_document_exists(_client, index, doc_id, get)
    THEN [value |-> TRUE, index |-> index]
    ELSE IF delete = "succeeded" THEN [value |-> TRUE, index |-> index \ {doc_id}]
    ELSE [value |-> FALSE, index |-> index]

\* The documents the index may hold and the states of the service.
IndexIds == {IntStr(1), IntStr(2), IntStr(3)}

DeleteDocument(_client, index, doc_id, get, delete) ==
    /\ op' = [name |-> "delete_document", configured |-> is_configured(_client),
              index |-> index, doc_id |-> doc_id, get |-> get]
    /\ ret' = delete_document(_client, index, doc_id, get, delete)
    /\ raised' = FALSE
    /\ UNCHANGED <<cache_vars, clean, facade_vars>>

NextIndex ==
    \E _client \in BOOLEAN, index \in SUBSET IndexIds, doc_id \in IndexIds,
       get \in GetOutcomes, delete \in DeleteOutcomes :
        DeleteDocument(_client, index, doc_id, get, delete)

SpecIndex == Init /\ [][NextIndex]_vars

\* C30: delete_document(doc_id) returns True only with the document absent
\* from the index it leaves, and never when the index could not be queried.
C30_TrueOnlyIfAbsentFromIndex ==
    (op.name = "delete_document" /\ ret.value) =>
        /\ op.doc_id \notin ret.index
        /\ op.get # "raises"

\* The id lists delete_documents is called with: up to three ids, each once.
BulkIds ==
    {doc_ids \in UNION {[1..n -> IndexIds] : n \in 0..3} :
         \A i, j \in DOMAIN doc_ids : doc_ids[i] = doc_ids[j] => i = j}

\* What self._client.delete_documents answers for a list of ids: one item per
\* document, with its key and whether its deletion succeeded.
BulkResults(doc_ids) ==
    {[i \in 1..Len(doc_ids) |-> [key |-> doc_ids[i], succeeded |-> ok[i]]] :
         ok \in [1..Len(doc_ids) -> BOOLEAN]}

\* AzureSearchService.delete_documents: result is what the client answers,
\* of which the loop gets through the first `processed` items; raises tells
\* whether an exception then leaves the try block (with processed = 0 the
\* bulk call itself has raised).
delete_documents(_client, doc_ids, result, processed, raises) ==
    IF ~_client THEN [succeeded |-> <<>>, failed |-> doc_ids]
    ELSE LET items == SubSeq(result, 1, processed)
             done == SelectSeq(items, LAMBDA item : item.succeeded)
             refused == SelectSeq(items, LAMBDA item : ~item.succeeded)
             succeeded == [i \in 1..Len(done) |-> done[i].key]
             failed == [i \in 1..Len(refused) |->
                           [id |-> refused[i].key, error |-> "item"]]
         IN  [succeeded |-> succeeded,
              failed |-> IF raises
                         THEN failed \o [i \in 1..Len(doc_ids) |->
                                            [id |-> doc_ids[i], error |-> "exception"]]
                         ELSE failed]

DeleteDocuments(_client, doc_ids, result, processed, raises) ==
    /\ op' = [name |-> "delete_documents", configured |-> is_configured(_client),
              doc_ids |-> doc_ids, processed |-> processed, raises |-> raises]
    /\ ret' = delete_documents(_client, doc_ids, result, processed, raises)
    /\ raised' = FALSE
    /\ UNCHANGED <<cache_vars, clean, facade_vars>>

NextBulk ==
    \E _client \in BOOLEAN, doc_ids \in BulkIds, raises \in BOOLEAN :
        \E result \in BulkResults(doc_ids),
           processed \in IF raises THEN 0..Len(doc_ids) ELSE {Len(doc_ids)} :
            DeleteDocuments(_client, doc_ids, result, processed, raises)

SpecBulk == Init /\ [][NextBulk]_vars

\* How often id is among the entries of the list succeeded, and of the list
\* failed (whose entries are the ids themselves when the service is not
\* configured, and {'id', 'error'} dicts otherwise).
InSucceeded(id) == Cardinality({i \in DOMAIN ret.succeeded : ret.succeeded[i] = id})
InFailed(id) ==
    Cardinality({i \in DOMAIN ret.failed :
                     (IF op.configured THEN ret.failed[i].id ELSE ret.failed[i]) = id})

\* C31: delete_documents(doc_ids) returns every requested id in exactly one
\* of its lists succeeded and failed, once, whether the service is
\* configured or not and wherever the bulk deletion raises.
C31_BulkDeletePartitionsIds ==
    op.name = "delete_documents" =>
        \A i \in DOMAIN op.doc_ids :
            InSucceeded(op.doc_ids[i]) + InFailed(op.doc_ids[i]) = 1

(***************************************************************************)
(* Searches by any field                                                   *)
(***************************************************************************)

\* The fields a search request may name: the two that are searched, and
\* "query", which is neither.
RequestFields == {S_UserPrompt, S_Query, S_query}
FieldQueries == {S_Foo, S_bar}

NextField ==
    \/ \E s \in Slots, c \in RequestContainers, q \in FieldQueries,
          field \in RequestFields : search_documents_lookup(s, c, q, field)
    \/ \E s \in Slots, ok \in BOOLEAN : search_documents_query(s, ok)
    \/ \E s \in Slots : search_documents_set(s)

SpecField == Init /\ [][NextField]_vars

\* C32: a search_documents request that names an allowed container and a
\* field other than UserPrompt and Query is answered with status 400, having
\* made no cache lookup, no document store query and no cache write.
C32_InvalidFieldIsRejectedWith400 ==
    \A s \in Slots :
        (/\ reqs[s].kind = "search_documents"
         /\ validate_container_name(reqs[s].container)
         /\ reqs[s].field \notin {S_UserPrompt, S_Query}) =>
            /\ reqs[s].pc = "done"
            /\ reqs[s].status = 400
            /\ reqs[s].calls = {}
            /\ ~reqs[s].hit

====
